---------------------------- MODULE Spec2Model ----------------------------
(***************************************************************************)
(* Ouhud QR: the design resolver (utils/qr_design.py), the renderer's      *)
(* entry point generate_qr_png (utils/qr_generator.py) and the URL/PDF     *)
(* update routes (routes/qr/url.py, routes/qr/pdf.py) as state machines.   *)
(*                                                                         *)
(* Python strings are sequences of one-character strings, so that strip,   *)
(* lower, lstrip, len and the hex parse are computed, not assumed.  A      *)
(* Python value is a record [t, s, n]: t is its type tag, s its characters *)
(* (a str), n its number (an int, or 1/0 for a bool).                      *)
(***************************************************************************)
EXTENDS Integers, Sequences, FiniteSets, TLC

VARIABLES
    raw,        \* the form fields of a request: resolve_design's arguments and quiet_zone
    resolved,   \* what resolve_design produced: a QRDesign or a raised error
    calls,      \* per generate_qr_png call: its arguments, locals and position
    files,      \* static/generated_qr: file name -> the PNG stored there
    clock,      \* time.time() in whole seconds
    qrs,        \* the qrcodes table: id -> row
    resp,       \* the request handled last by a route, with its answer
    history,    \* per QR: the URL of the latest update request made with edit rights
    again,      \* what a second resolve_design call with the same arguments produced
    redemptions, \* the coupon_redemptions table: its rows
    redeems,    \* per client: its redeem_coupon request, with its locals and position
    app         \* a request and environment, with the base URL and dynamic URL made of them

vars == <<raw, resolved, calls, files, clock, qrs, resp, history, again, redemptions, redeems, app>>

-----------------------------------------------------------------------------
(* Python values *)

PyNone == [t |-> "none", s |-> <<>>, n |-> 0]

PyStr(chars) == [t |-> "str", s |-> chars, n |-> 0]

PyInt(i) == [t |-> "int", s |-> <<>>, n |-> i]

PyBool(b) == [t |-> "bool", s |-> <<>>, n |-> IF b THEN 1 ELSE 0]

\* bool(v): None, "", 0 and False are falsy
Truthy(v) ==
    CASE v.t = "none" -> FALSE
      [] v.t = "str"  -> Len(v.s) > 0
      [] v.t = "int"  -> v.n # 0
      [] v.t = "bool" -> v.n = 1

\* Python's `a or b`
Or(a, b) == IF Truthy(a) THEN a ELSE b

DigitChars == <<"0", "1", "2", "3", "4", "5", "6", "7", "8", "9">>

RECURSIVE NatToChars(_)
NatToChars(i) ==
    IF i < 10 THEN <<DigitChars[i + 1]>>
    ELSE NatToChars(i \div 10) \o <<DigitChars[(i % 10) + 1]>>

\* str(v), as characters
ToChars(v) ==
    CASE v.t = "none" -> <<"N", "o", "n", "e">>
      [] v.t = "str"  -> v.s
      [] v.t = "int"  -> IF v.n < 0 THEN <<"-">> \o NatToChars(0 - v.n) ELSE NatToChars(v.n)
      [] v.t = "bool" -> IF v.n = 1 THEN <<"T", "r", "u", "e">> ELSE <<"F", "a", "l", "s", "e">>

IsSpace(c) == c \in {" ", "\t", "\n", "\r"}

RECURSIVE LStripSpace(_)
LStripSpace(s) ==
    IF s # <<>> /\ IsSpace(Head(s)) THEN LStripSpace(Tail(s)) ELSE s

RECURSIVE RStripSpace(_)
RStripSpace(s) ==
    IF s # <<>> /\ IsSpace(s[Len(s)]) THEN RStripSpace(SubSeq(s, 1, Len(s) - 1)) ELSE s

\* str.strip()
Strip(s) == RStripSpace(LStripSpace(s))

\* str.lstrip("#")
RECURSIVE LStripHash(_)
LStripHash(s) ==
    IF s # <<>> /\ Head(s) = "#" THEN LStripHash(Tail(s)) ELSE s

UpperChars == <<"A", "B", "C", "D", "E", "F", "G", "H", "I", "J", "K", "L", "M",
                "N", "O", "P", "Q", "R", "S", "T", "U", "V", "W", "X", "Y", "Z">>

LowerChars == <<"a", "b", "c", "d", "e", "f", "g", "h", "i", "j", "k", "l", "m",
                "n", "o", "p", "q", "r", "s", "t", "u", "v", "w", "x", "y", "z">>

LowerChar(c) ==
    IF \E i \in 1..26 : UpperChars[i] = c
    THEN LowerChars[CHOOSE i \in 1..26 : UpperChars[i] = c]
    ELSE c

\* str.lower()
RECURSIVE Lower(_)
Lower(s) == IF s = <<>> THEN <<>> ELSE <<LowerChar(Head(s))>> \o Lower(Tail(s))

HexChars == <<"0", "1", "2", "3", "4", "5", "6", "7", "8", "9",
              "a", "b", "c", "d", "e", "f">>

IsHexChar(c) == \E i \in 1..16 : HexChars[i] = LowerChar(c)

HexVal(c) == (CHOOSE i \in 1..16 : HexChars[i] = LowerChar(c)) - 1

IsDigitChar(c) == \E i \in 1..10 : DigitChars[i] = c

RECURSIVE DigitsToNat(_)
DigitsToNat(s) ==
    IF s = <<>> THEN 0
    ELSE 10 * DigitsToNat(SubSeq(s, 1, Len(s) - 1)) + HexVal(s[Len(s)])

\* int(v) raises ValueError on a str that is not an optionally signed run of
\* decimal digits (surrounding whitespace allowed), and TypeError on None.
IntBody(s) == IF s # <<>> /\ Head(s) \in {"+", "-"} THEN Tail(s) ELSE s

IntFails(v) ==
    CASE v.t = "none" -> TRUE
      [] v.t = "str"  -> LET b == IntBody(Strip(v.s))
                         IN  b = <<>> \/ \E i \in 1..Len(b) : ~IsDigitChar(b[i])
      [] OTHER        -> FALSE

IntOf(v) ==
    CASE v.t = "str" -> LET t == Strip(v.s)
                            m == DigitsToNat(IntBody(t))
                        IN  IF Head(t) = "-" THEN 0 - m ELSE m
      [] OTHER       -> v.n

Max(a, b) == IF a >= b THEN a ELSE b

Min(a, b) == IF a <= b THEN a ELSE b

-----------------------------------------------------------------------------
(* Colours: _hex_to_rgb, _relative_luminance, _contrast_ratio.             *)
(* Luminance is in millionths and a contrast ratio in thousandths, so the  *)
(* threshold 4.5 is 4500.                                                  *)

\* comp(v) of _relative_luminance for v = 0..255, in ten-thousandths:
\* x = v/255; x/12.92 if x <= 0.03928 else ((x + 0.055)/1.055) ** 2.4
CompTable == <<
    0, 3, 6, 9, 12, 15, 18, 21, 24, 27, 30, 33, 37, 40, 44, 48,
    52, 56, 60, 65, 70, 75, 80, 86, 91, 97, 103, 110, 116, 123, 130, 137,
    144, 152, 160, 168, 176, 185, 194, 203, 212, 222, 232, 242, 252, 262, 273, 284,
    296, 307, 319, 331, 343, 356, 369, 382, 395, 409, 423, 437, 452, 467, 482, 497,
    513, 529, 545, 561, 578, 595, 612, 630, 648, 666, 685, 704, 723, 742, 762, 782,
    802, 823, 844, 865, 887, 908, 931, 953, 976, 999, 1022, 1046, 1070, 1095, 1119, 1144,
    1170, 1195, 1221, 1248, 1274, 1301, 1329, 1356, 1384, 1413, 1441, 1470, 1500, 1529, 1559, 1590,
    1620, 1651, 1683, 1714, 1746, 1779, 1812, 1845, 1878, 1912, 1946, 1981, 2016, 2051, 2086, 2122,
    2159, 2195, 2232, 2270, 2307, 2346, 2384, 2423, 2462, 2502, 2542, 2582, 2623, 2664, 2705, 2747,
    2789, 2831, 2874, 2918, 2961, 3005, 3050, 3095, 3140, 3185, 3231, 3278, 3325, 3372, 3419, 3467,
    3515, 3564, 3613, 3663, 3712, 3763, 3813, 3864, 3916, 3968, 4020, 4072, 4125, 4179, 4233, 4287,
    4342, 4397, 4452, 4508, 4564, 4621, 4678, 4735, 4793, 4851, 4910, 4969, 5029, 5089, 5149, 5210,
    5271, 5333, 5395, 5457, 5520, 5583, 5647, 5711, 5776, 5841, 5906, 5972, 6038, 6105, 6172, 6240,
    6308, 6376, 6445, 6514, 6584, 6654, 6724, 6795, 6867, 6939, 7011, 7084, 7157, 7231, 7305, 7379,
    7454, 7529, 7605, 7682, 7758, 7835, 7913, 7991, 8070, 8148, 8228, 8308, 8388, 8469, 8550, 8632,
    8714, 8796, 8879, 8963, 9047, 9131, 9216, 9301, 9387, 9473, 9560, 9647, 9734, 9823, 9911, 10000
>>

\* the (13, 42, 120) both _hex_to_rgb return for a value they cannot parse
FallbackRGB == <<13, 42, 120>>

\* int(raw[i:i+2], 16) of two hex digits
HexPair(s, i) == 16 * HexVal(s[i]) + HexVal(s[i + 1])

\* "".join(ch * 2 for ch in raw)
RECURSIVE Doubled(_)
Doubled(s) == IF s = <<>> THEN <<>> ELSE <<Head(s), Head(s)>> \o Doubled(Tail(s))

\* if len(raw) == 3: raw = "".join(ch * 2 for ch in raw)
Expand3(hex) == IF Len(hex) = 3 THEN Doubled(hex) ELSE hex

\* the three int(raw[i:j], 16) under try/except ValueError, and the length test
ParseHex6(hex) ==
    IF Len(hex) # 6 THEN FallbackRGB
    ELSE IF \E i \in 1..6 : ~IsHexChar(hex[i]) THEN FallbackRGB
    ELSE <<HexPair(hex, 1), HexPair(hex, 3), HexPair(hex, 5)>>

\* (max(l1, l2) + 0.05) / (min(l1, l2) + 0.05), in thousandths
ContrastOf(l1, l2) == ((Max(l1, l2) + 50000) * 1000) \div (Min(l1, l2) + 50000)

\* utils/qr_design.py _hex_to_rgb
design_hex_to_rgb(value) ==
    ParseHex6(Expand3(LStripHash(Strip(ToChars(Or(value, PyStr(<<>>)))))))

\* utils/qr_design.py _relative_luminance
design_relative_luminance(rgb) ==
    (2126 * CompTable[rgb[1] + 1] + 7152 * CompTable[rgb[2] + 1]
        + 722 * CompTable[rgb[3] + 1]) \div 100

\* utils/qr_design.py _contrast_ratio
design_contrast_ratio(fg, bg) ==
    ContrastOf(design_relative_luminance(design_hex_to_rgb(fg)),
               design_relative_luminance(design_hex_to_rgb(bg)))

\* utils/qr_generator.py _hex_to_rgb
gen_hex_to_rgb(hex_color) ==
    ParseHex6(Expand3(LStripHash(Strip(ToChars(Or(hex_color, PyStr(<<>>)))))))

\* utils/qr_generator.py _relative_luminance
gen_relative_luminance(rgb) ==
    (2126 * CompTable[rgb[1] + 1] + 7152 * CompTable[rgb[2] + 1]
        + 722 * CompTable[rgb[3] + 1]) \div 100

\* utils/qr_generator.py _contrast_ratio
gen_contrast_ratio(fg, bg) ==
    ContrastOf(gen_relative_luminance(gen_hex_to_rgb(fg)),
               gen_relative_luminance(gen_hex_to_rgb(bg)))

-----------------------------------------------------------------------------
(* String literals, as characters *)

s_classic == <<"c","l","a","s","s","i","c">>

s_modern == <<"m","o","d","e","r","n">>

s_custom == <<"c","u","s","t","o","m">>

s_web == <<"w","e","b">>

s_print == <<"p","r","i","n","t">>

s_sticker == <<"s","t","i","c","k","e","r">>

s_poster == <<"p","o","s","t","e","r">>

s_png == <<"p","n","g">>

s_svg == <<"s","v","g">>

s_pdf == <<"p","d","f">>

s_zip == <<"z","i","p">>

s_square == <<"s","q","u","a","r","e">>

s_rounded == <<"r","o","u","n","d","e","d">>

s_thin_line == <<"t","h","i","n","-","l","i","n","e">>

s_none == <<"n","o","n","e">>

s_floating == <<"f","l","o","a","t","i","n","g">>

s_pill == <<"p","i","l","l">>

s_auto_white == <<"a","u","t","o","-","w","h","i","t","e">>

s_navy == <<"#","0","D","2","A","7","8">>

s_white == <<"#","F","F","F","F","F","F">>

s_black == <<"#","0","0","0","0","0","0">>

s_near_black == <<"#","1","1","1","1","1","1">>

s_dots == <<"d","o","t","s">>

s_soft == <<"s","o","f","t">>

s_squircle == <<"s","q","u","i","r","c","l","e">>

s_ring == <<"r","i","n","g">>

s_target == <<"t","a","r","g","e","t">>

s_corner == <<"c","o","r","n","e","r">>

-----------------------------------------------------------------------------
(* utils/qr_config.py (QR_THEMES, get_qr_style) is not among the sources.  *)
(* The presets are modelled from the specification: each preset fixes a    *)
(* foreground, a background, a module style and an eye style inside the    *)
(* tested-safe parameter space (section 3).                                *)

QR_THEMES_keys == {s_classic, s_modern}

QR_THEMES(key) ==
    CASE key = s_classic -> [fg |-> s_black, bg |-> s_white,
                             module_style |-> s_square, eye_style |-> s_square]
      [] key = s_modern  -> [fg |-> s_navy, bg |-> s_white,
                             module_style |-> s_rounded, eye_style |-> s_rounded]

\* a key that is no preset (custom) gets the default theme's values
get_qr_style(key) ==
    IF key \in QR_THEMES_keys THEN QR_THEMES(key) ELSE QR_THEMES(s_modern)

-----------------------------------------------------------------------------
(* utils/qr_design.py *)

PresetKeys == {s_web, s_print, s_sticker, s_poster}

PRESET_EXPORT_CONFIG(key) ==
    CASE key = s_web     -> [size |-> 600,  dpi |-> 144, quiet_zone |-> 4]
      [] key = s_print   -> [size |-> 1200, dpi |-> 300, quiet_zone |-> 6]
      [] key = s_sticker -> [size |-> 900,  dpi |-> 300, quiet_zone |-> 6]
      [] key = s_poster  -> [size |-> 1800, dpi |-> 300, quiet_zone |-> 8]

\* max(lo, min(v, hi))
Clamp(lo, v, hi) == Max(lo, Min(v, hi))

\* _normalize_size without the clamp of line 43
normalize_size_unclamped(raw_size, output_preset) ==
    LET key      == Lower(Strip(ToChars(Or(output_preset, PyStr(<<>>)))))
        cfg      == IF key \in PresetKeys THEN PRESET_EXPORT_CONFIG(key)
                    ELSE PRESET_EXPORT_CONFIG(s_web)
        v        == Or(raw_size, PyInt(cfg.size))
    IN  IF IntFails(v) THEN cfg.size ELSE IntOf(v)

\* _normalize_size: int(raw_size or fallback), the fallback on ValueError or
\* TypeError, clamped to 200..2000
normalize_size(raw_size, output_preset) ==
    LET key      == Lower(Strip(ToChars(Or(output_preset, PyStr(<<>>)))))
        cfg      == IF key \in PresetKeys THEN PRESET_EXPORT_CONFIG(key)
                    ELSE PRESET_EXPORT_CONFIG(s_web)
        fallback == cfg.size
        v        == Or(raw_size, PyInt(fallback))
        size     == IF IntFails(v) THEN fallback ELSE IntOf(v)
    IN  Clamp(200, size, 2000)

\* resolve_design, lines 90-92: the style key
StyleKey(style) ==
    LET k0 == Lower(Strip(ToChars(Or(style, PyStr(s_modern)))))
        k1 == IF k0 = <<>> THEN s_modern ELSE k0
    IN  IF k1 # s_custom /\ k1 \notin QR_THEMES_keys THEN s_classic ELSE k1

\* resolve_design, lines 95-96: the output preset
OutputKey(output_preset) ==
    LET o == Lower(Strip(ToChars(Or(output_preset, PyStr(s_web)))))
    IN  IF o \in PresetKeys THEN o ELSE s_web

\* line 101 with the style test dropped: overrides accepted under every style
AcceptsOverrides_always(style_key) == TRUE

\* resolve_design, line 101: manual overrides are accepted only under custom
AcceptsOverrides(style_key) == style_key = s_custom

\* resolve_design, lines 114-115
SafeEnabled(safe_mode) ==
    IF safe_mode.t = "none" THEN FALSE
    ELSE Lower(Strip(ToChars(safe_mode))) \in {<<"1">>, <<"t","r","u","e">>, <<"y","e","s">>, <<"o","n">>}

\* a colour pair with its contrast, and whether safe mode has changed it
Pair(fg, bg, applied) ==
    [fg |-> fg, bg |-> bg, applied |-> applied,
     contrast |-> design_contrast_ratio(PyStr(fg), PyStr(bg))]

\* resolve_design, lines 122-123
FlipFg(bg) ==
    IF design_relative_luminance(design_hex_to_rgb(PyStr(bg))) > 500000
    THEN s_near_black ELSE s_white

\* the first correction without the test of line 120
SafeFlip_unasked(p, safe_enabled) ==
    IF p.contrast < 4500 THEN Pair(FlipFg(p.bg), p.bg, TRUE) ELSE p

\* resolve_design, lines 121-125: the first correction
SafeFlip(p, safe_enabled) ==
    IF safe_enabled /\ p.contrast < 4500 THEN Pair(FlipFg(p.bg), p.bg, TRUE) ELSE p

\* the second correction run whenever the first one ran
SafeForce_after_any_flip(p, safe_enabled) ==
    IF safe_enabled /\ (p.applied \/ p.contrast < 4500) THEN Pair(s_navy, s_white, TRUE) ELSE p

\* resolve_design, lines 126-130: the second correction
SafeForce(p, safe_enabled) ==
    IF safe_enabled /\ p.contrast < 4500 THEN Pair(s_navy, s_white, TRUE) ELSE p

\* lines 118-130 without the second correction (the fixed pair of lines 126-130)
SafeContrast_flip_only(fg, bg, safe_enabled) ==
    SafeFlip(Pair(fg, bg, FALSE), safe_enabled)

\* resolve_design, lines 118-130: the two contrast corrections of safe mode
SafeContrast(fg, bg, safe_enabled) ==
    SafeForce(SafeFlip(Pair(fg, bg, FALSE), safe_enabled), safe_enabled)

\* lines 131-133 without line 133
SafeModule_unflagged(module, qr_px, safe_enabled) ==
    IF safe_enabled /\ module = s_thin_line /\ qr_px < 700
    THEN [module |-> s_square, applied |-> FALSE]
    ELSE [module |-> module, applied |-> FALSE]

\* resolve_design, lines 131-133
SafeModule(module, qr_px, safe_enabled) ==
    IF safe_enabled /\ module = s_thin_line /\ qr_px < 700
    THEN [module |-> s_square, applied |-> TRUE]
    ELSE [module |-> module, applied |-> FALSE]

\* resolve_design, lines 134-136
SafeQuietZone(quiet_zone, safe_enabled) ==
    IF safe_enabled /\ quiet_zone < 4
    THEN [quiet_zone |-> 4, applied |-> TRUE]
    ELSE [quiet_zone |-> quiet_zone, applied |-> FALSE]

\* f"{contrast:.2f}": a ratio in thousandths rounded to hundredths
Fmt2(contrast) == (contrast + 5) \div 10

Warning(kind, ratio) == [kind |-> kind, ratio |-> ratio]

\* lines 138-148 with the thin-line test placed before the contrast test
Warnings_thin_line_first(contrast, module, qr_px, quiet_zone, frame_style, safe_enabled, safe_applied) ==
    (IF module = s_thin_line /\ qr_px < 700 THEN <<Warning("thin_line", 0)>> ELSE <<>>)
    \o (IF contrast < 4500 THEN <<Warning("low_contrast", Fmt2(contrast))>> ELSE <<>>)
    \o (IF quiet_zone < 4 THEN <<Warning("quiet_zone", 0)>> ELSE <<>>)
    \o (IF Lower(Strip(ToChars(Or(frame_style, PyStr(s_none))))) = s_floating
        THEN <<Warning("floating_frame", 0)>> ELSE <<>>)
    \o (IF safe_enabled /\ safe_applied THEN <<Warning("safe_mode", 0)>> ELSE <<>>)

\* resolve_design, lines 138-148
Warnings(contrast, module, qr_px, quiet_zone, frame_style, safe_enabled, safe_applied) ==
    (IF contrast < 4500 THEN <<Warning("low_contrast", Fmt2(contrast))>> ELSE <<>>)
    \o (IF module = s_thin_line /\ qr_px < 700 THEN <<Warning("thin_line", 0)>> ELSE <<>>)
    \o (IF quiet_zone < 4 THEN <<Warning("quiet_zone", 0)>> ELSE <<>>)
    \o (IF Lower(Strip(ToChars(Or(frame_style, PyStr(s_none))))) = s_floating
        THEN <<Warning("floating_frame", 0)>> ELSE <<>>)
    \o (IF safe_enabled /\ safe_applied THEN <<Warning("safe_mode", 0)>> ELSE <<>>)

\* resolve_design, line 160: int(logo_scale or 20) has no except clause
LogoScaleRaises(logo_scale) == IntFails(Or(logo_scale, PyInt(20)))

LogoScale(logo_scale) == Clamp(8, IntOf(Or(logo_scale, PyInt(20))), 20)

\* line 158 without the membership test: the normalised value as it is
ExportFormat_unchecked(export_format) ==
    Lower(Strip(ToChars(Or(export_format, PyStr(s_png)))))

\* resolve_design, lines 97 and 158
ExportFormat(export_format) ==
    LET e == Lower(Strip(ToChars(Or(export_format, PyStr(s_png)))))
    IN  IF e \in {s_png, s_svg, s_pdf, s_zip} THEN e ELSE s_png

\* resolve_design, lines 101-110: the colours, module and eye style before
\* safe mode looks at them
Uncorrected(a) ==
    LET style_key == StyleKey(a.style)
        conf      == get_qr_style(style_key)
        over      == AcceptsOverrides(style_key)
        conf_mod  == Or(PyStr(conf.module_style), PyStr(s_square))
        conf_eye  == Or(PyStr(conf.eye_style), PyStr(s_square))
    IN  [fg     |-> IF over THEN ToChars(Or(a.fg_color, PyStr(conf.fg))) ELSE conf.fg,
         bg     |-> IF over THEN ToChars(Or(a.bg_color, PyStr(conf.bg))) ELSE conf.bg,
         module |-> IF over THEN ToChars(Or(a.module_style, conf_mod)) ELSE conf_mod.s,
         eye    |-> IF over THEN ToChars(Or(a.eye_style, conf_eye)) ELSE conf_eye.s]

\* resolve_design, lines 150-168: the QRDesign built of the corrected values
MakeDesign(a, u, qr_px, safe, col, mod, qz) ==
    [style             |-> StyleKey(a.style),
     fg                |-> col.fg,
     bg                |-> col.bg,
     module_style      |-> mod.module,
     eye_style         |-> u.eye,
     qr_size           |-> qr_px,
     output_preset     |-> OutputKey(a.output_preset),
     export_format     |-> ExportFormat(a.export_format),
     frame_style       |-> Lower(Strip(ToChars(Or(a.frame_style, PyStr(s_none))))),
     logo_scale        |-> LogoScale(a.logo_scale),
     logo_bg_mode      |-> Lower(Strip(ToChars(Or(a.logo_bg_mode, PyStr(s_auto_white))))),
     quiet_zone        |-> qz.quiet_zone,
     dpi               |-> Clamp(72, PRESET_EXPORT_CONFIG(OutputKey(a.output_preset)).dpi, 600),
     contrast_ratio    |-> col.contrast,
     warnings          |-> Warnings(col.contrast, mod.module, qr_px, qz.quiet_zone,
                                    a.frame_style, safe,
                                    col.applied \/ mod.applied \/ qz.applied),
     safe_mode         |-> safe,
     safe_mode_applied |-> col.applied \/ mod.applied \/ qz.applied]

\* resolve_design, lines 111-136: size, quiet zone and the safe-mode corrections
Corrected(a, u, qr_px, safe) ==
    MakeDesign(a, u, qr_px, safe,
               SafeContrast(u.fg, u.bg, safe),
               SafeModule(u.module, qr_px, safe),
               SafeQuietZone(Clamp(2, PRESET_EXPORT_CONFIG(OutputKey(a.output_preset)).quiet_zone, 12),
                             safe))

\* resolve_design if its warnings list outlived the call (a list shared by
\* all calls instead of the fresh one of line 138)
resolve_design_shared_warnings(a) ==
    IF LogoScaleRaises(a.logo_scale)
    THEN [status |-> "raised", error |-> "ValueError"]
    ELSE [status |-> "ok",
          design |-> [Corrected(a, Uncorrected(a),
                                normalize_size(a.qr_size, PyStr(OutputKey(a.output_preset))),
                                SafeEnabled(a.safe_mode))
                        EXCEPT !.warnings =
                            (IF resolved.status = "ok" THEN resolved.design.warnings ELSE <<>>)
                            \o @]]

\* resolve_design: [status |-> "ok", design |-> the QRDesign], or the
\* exception that leaves the function
resolve_design(a) ==
    IF LogoScaleRaises(a.logo_scale)
    THEN [status |-> "raised", error |-> "ValueError"]
    ELSE [status |-> "ok",
          design |-> Corrected(a, Uncorrected(a),
                               normalize_size(a.qr_size, PyStr(OutputKey(a.output_preset))),
                               SafeEnabled(a.safe_mode))]

-----------------------------------------------------------------------------
(* utils/qr_generator.py *)

DEFAULT_FG == s_navy

DEFAULT_BG == s_white

\* _normalize_hex: the stripped value when it starts with "#" and has 4 or 7
\* characters, the fallback otherwise; the characters after "#" are not looked at
normalize_hex(value, fallback) ==
    LET r == Strip(ToChars(Or(value, PyStr(<<>>))))
    IN  IF r # <<>> /\ Head(r) = "#" /\ Len(r) \in {4, 7} THEN r ELSE fallback

\* The largest payload, in bytes, that qr.make(fit=True) places at
\* ERROR_CORRECT_H: version 40 holds 10208 data bits, 20 of them the byte-mode
\* header.  A longer payload raises DataOverflowError.
QR_MAX_BYTES_H == 1273

\* _build_qr, line 38
Border(quiet_zone) == Clamp(2, IntOf(Or(quiet_zone, PyInt(4))), 12)

\* _build_qr if the encoder accepted a payload of any length
build_qr_unbounded(payload, quiet_zone) ==
    [status |-> "ok", payload |-> payload.id, border |-> Border(quiet_zone)]

\* _build_qr: the matrix (its payload and border), or the overflow raised by
\* qr.make(fit=True)
build_qr(payload, quiet_zone) ==
    IF payload.len > QR_MAX_BYTES_H
    THEN [status |-> "raised", error |-> "DataOverflowError"]
    ELSE [status |-> "ok", payload |-> payload.id, border |-> Border(quiet_zone)]

\* PIL ImageColor.getrgb on a value _normalize_hex let through: "#" followed
\* by 3 or 6 hex digits is a colour, anything else raises ValueError
GetRgbRaises(color) ==
    ~(/\ color # <<>> /\ Head(color) = "#"
      /\ Len(color) \in {4, 5, 7, 9}
      /\ \A i \in 2..Len(color) : IsHexChar(color[i]))

\* _module_drawer: the drawer class chosen for a module_style
module_drawer(module_style) ==
    LET style == Lower(Strip(ToChars(Or(module_style, PyStr(s_square)))))
    IN  CASE style = s_square    -> "SquareModuleDrawer"
          [] style = s_rounded   -> "RoundedModuleDrawer"
          [] style = <<"d","o","t","s">> -> "CircleModuleDrawer"
          [] style = <<"s","o","f","t">> -> "GappedSquareModuleDrawer"
          [] style = <<"s","q","u","i","r","c","l","e">> -> "RoundedModuleDrawer"
          [] style = s_thin_line -> "VerticalBarsDrawer"
          [] OTHER               -> "SquareModuleDrawer"

\* the frame style as the caller gave it
FrameStyle_no_fallback(frame_style, frame_text) == frame_style

\* generate_qr_png, lines 430-432: a caption without a frame style means pill
FrameStyle(frame_style, frame_text) ==
    IF Truthy(frame_text) /\ frame_style \in {s_none, <<>>} THEN s_pill ELSE frame_style

\* The side, in modules, of the symbol qr.make(fit=True) chooses at level H:
\* versions 1, 2 and 3 hold 7, 14 and 24 bytes; the payloads drawn here that
\* are longer need version 40.
ModulesCount(payload) ==
    IF payload.len <= 7 THEN 21
    ELSE IF payload.len <= 14 THEN 25
    ELSE IF payload.len <= 24 THEN 29
    ELSE 177

\* The dark cells <<row, col>> of the symbol.  The encoder is the library's; of
\* its output the model keeps the corners of the three finder patterns and
\* the dark module, which are dark in every symbol, and one cell that
\* depends on the payload.
DataBits(payload) ==
    LET m == ModulesCount(payload)
    IN  {<<0, 0>>, <<0, 6>>, <<6, 0>>, <<6, 6>>,
         <<0, m - 7>>, <<0, m - 1>>, <<6, m - 7>>, <<6, m - 1>>,
         <<m - 7, 0>>, <<m - 1, 0>>, <<m - 7, 6>>, <<m - 1, 6>>,
         <<m - 8, 8>>}
        \cup (IF payload.id = "p1" THEN {<<m - 1, m - 1>>} ELSE {<<m - 3, m - 2>>})

\* qr.get_matrix(): the symbol with `border` rows and columns of light cells
\* on every side
get_matrix(payload, border) ==
    [n      |-> ModulesCount(payload) + 2 * border,
     border |-> border,
     on     |-> {<<c[1] + border, c[2] + border>> : c \in DataBits(payload)}]

\* box_size of _build_qr; the image of make_image is matrix_size * box_size wide
BOX_SIZE == 10

\* _draw_eye_overlays, lines 74-81: the three origins, in pixels
eye_origins(module_px, n, border) ==
    {<<border * module_px, border * module_px>>,
     <<(n - border - 7) * module_px, border * module_px>>,
     <<border * module_px, (n - border - 7) * module_px>>}

\* _draw_eye_overlays: the overlays drawn on an image `width` pixels wide,
\* each the style of its shapes and its origin <<x, y>> in pixels.  A style
\* without a branch of its own (lines 92-110) draws nothing.
draw_eye_overlays(eye_style, qr, width) ==
    LET style == Lower(Strip(ToChars(Or(eye_style, PyStr(s_square)))))
    IN  IF style \in {<<>>, s_square} THEN {}
        ELSE IF style \in {s_rounded, s_ring, s_target, s_dots}
        THEN {[style |-> style, origin |-> o] :
                 o \in eye_origins(Max(1, width \div qr.n), qr.n, qr.border)}
        ELSE {}

\* the logo files on disk: one that PIL cannot decode and one that it can;
\* any other path does not exist
LogoCorrupt == PyStr(<<"c",".","p","n","g">>)
LogoGood    == PyStr(<<"l",".","p","n","g">>)
LogoMissing == PyStr(<<"m",".","p","n","g">>)
LogoFiles   == (LogoCorrupt :> "corrupt") @@ (LogoGood :> "ok")

\* the image before anything is drawn
NoImage ==
    [payload |-> "", size |-> 0, fg |-> <<>>, bg |-> <<>>, drawer |-> "",
     eye |-> <<>>, border |-> 0, eyes |-> {}, frame |-> <<>>,
     width |-> 0, height |-> 0, logo |-> "none", stages |-> <<>>]

\* generate_qr_png, lines 410-414: make_image draws every module with the
\* drawer of the module_style, BOX_SIZE pixels a module
make_image(a, safe_fg, safe_bg) ==
    [NoImage EXCEPT !.payload = a.payload.id,
                    !.fg      = safe_fg,
                    !.bg      = safe_bg,
                    !.drawer  = module_drawer(PyStr(a.module_style)),
                    !.border  = Border(PyInt(a.quiet_zone)),
                    !.width   = (ModulesCount(a.payload) + 2 * Border(PyInt(a.quiet_zone))) * BOX_SIZE,
                    !.height  = (ModulesCount(a.payload) + 2 * Border(PyInt(a.quiet_zone))) * BOX_SIZE,
                    !.stages  = <<"modules">>]

\* line 416: the eye overlays are drawn on the image as it is
with_eye_overlays(img, a) ==
    [img EXCEPT !.eye    = Lower(Strip(ToChars(Or(PyStr(a.eye_style), PyStr(s_square))))),
                !.eyes   = draw_eye_overlays(PyStr(a.eye_style),
                                             get_matrix(a.payload, Border(PyInt(a.quiet_zone))),
                                             img.width),
                !.stages = Append(img.stages, "eyes")]

\* line 418: img.resize((size, size), NEAREST)
resize(img, a) ==
    [img EXCEPT !.size = a.size, !.width = a.size, !.height = a.size,
                !.stages = Append(img.stages, "resize")]

\* line 419: ImageOps.expand(img, border=8)
EXPAND_BORDER == 8

expand(img) ==
    [img EXCEPT !.width = img.width + 2 * EXPAND_BORDER, !.height = img.height + 2 * EXPAND_BORDER,
                !.stages = Append(img.stages, "border")]

\* _apply_logo with every load as if it succeeded: lines 150-151 outside the
\* try
apply_logo_unguarded(img, logo_path, logo_position) ==
    IF ~Truthy(logo_path) \/ logo_path \notin DOMAIN LogoFiles
    THEN [status |-> "ok", img |-> img]
    ELSE IF LogoFiles[logo_path] = "corrupt"
    THEN [status |-> "raised", img |-> img]
    ELSE [status |-> "ok",
          img    |-> [img EXCEPT !.logo = IF logo_position = "background"
                                          THEN "background" ELSE "center"]]

\* _apply_logo: no path or no file returns the image (lines 150-151), a file
\* PIL cannot open and convert returns the image (lines 153-157), otherwise
\* the logo is composited behind (lines 159-162) or on top of the image
\* (lines 164-199); the size of the image stays
apply_logo(img, logo_path, logo_position) ==
    IF ~Truthy(logo_path) \/ logo_path \notin DOMAIN LogoFiles
    THEN [status |-> "ok", img |-> img]
    ELSE IF LogoFiles[logo_path] = "corrupt"
    THEN [status |-> "ok", img |-> img]
    ELSE [status |-> "ok",
          img    |-> [img EXCEPT !.logo = IF logo_position = "background"
                                          THEN "background" ELSE "center"]]

\* _apply_frame: the frame drawn for a style and what it adds to the canvas
\* (corner: border 18, line 211; floating: border 28, lines 220-221; any other
\* style: the pill, 78 below, lines 231-232)
apply_frame(img, frame_style) ==
    LET style == Lower(Strip(IF frame_style = <<>> THEN s_none ELSE frame_style))
    IN  IF style \in {<<>>, s_none} THEN img
        ELSE IF style = s_corner
        THEN [img EXCEPT !.frame = s_corner, !.width = img.width + 36, !.height = img.height + 36]
        ELSE IF style = s_floating
        THEN [img EXCEPT !.frame = s_floating, !.width = img.width + 56, !.height = img.height + 56]
        ELSE [img EXCEPT !.frame = s_pill, !.height = img.height + 78]

\* generate_qr_png, lines 430-441: _apply_frame is called for a frame style
\* other than "" and "none", after the fallback to pill
with_frame(img, frame_style) ==
    IF frame_style \in {<<>>, s_none}
    THEN [img EXCEPT !.frame = s_none]
    ELSE apply_frame([img EXCEPT !.frame = s_none, !.stages = Append(img.stages, "frame")],
                     frame_style)

\* the statements in another order: the eye overlays after the frame
NextStage_eyes_last(stage) ==
    CASE stage = "draw"   -> "resize"
      [] stage = "resize" -> "border"
      [] stage = "border" -> "logo"
      [] stage = "logo"   -> "frame"
      [] stage = "frame"  -> "eyes"
      [] stage = "eyes"   -> "name"

\* the order of the statements of lines 410-441, as the stage that follows
\* each stage; "name" is line 443
NextStage(stage) ==
    CASE stage = "draw"   -> "eyes"
      [] stage = "eyes"   -> "resize"
      [] stage = "resize" -> "border"
      [] stage = "border" -> "logo"
      [] stage = "logo"   -> "frame"
      [] stage = "frame"  -> "name"

Stages == {"draw", "eyes", "resize", "border", "logo", "frame"}

\* what one stage makes of the image
ApplyStage(stage, img, a, safe_fg, safe_bg) ==
    CASE stage = "draw"   -> [status |-> "ok", img |-> make_image(a, safe_fg, safe_bg)]
      [] stage = "eyes"   -> [status |-> "ok", img |-> with_eye_overlays(img, a)]
      [] stage = "resize" -> [status |-> "ok", img |-> resize(img, a)]
      [] stage = "border" -> [status |-> "ok", img |-> expand(img)]
      [] stage = "logo"   -> apply_logo([img EXCEPT !.stages = Append(img.stages, "logo")],
                                        a.logo_path, a.logo_position)
      [] stage = "frame"  -> [status |-> "ok",
                              img    |-> with_frame(img, FrameStyle(a.frame_style, a.frame_text))]

RECURSIVE RunStages(_, _, _, _, _)
RunStages(stage, img, a, safe_fg, safe_bg) ==
    IF stage = "name" THEN img
    ELSE RunStages(NextStage(stage), ApplyStage(stage, img, a, safe_fg, safe_bg).img,
                   a, safe_fg, safe_bg)

\* generate_qr_png, lines 410-441: the composited image, as what determines
\* its pixels
Image(a, safe_fg, safe_bg) == RunStages("draw", NoImage, a, safe_fg, safe_bg)

\* generate_qr_png, line 445: the caller's filename, or one made of the second
\* the call reaches this line in
FileName(filename, now) ==
    IF Truthy(filename) THEN ToChars(filename)
    ELSE <<"q","r","_">> \o NatToChars(now) \o <<".","p","n","g">>

\* _generate_svg_bytes, line 295
SVG_PAD == 12

\* _generate_svg_bytes, line 296: the side of a cell in the SVG
svg_cell(size, n) == Max(2, size \div Max(1, n))

\* _generate_svg_bytes, lines 315-332: the element appended for the dark cell of column x, row y.
\* x, y, w, h are a rect's attributes; for a circle x, y are cx, cy and w, h
\* both r.
svg_module(mod_style, x, y, cell) ==
    LET px == SVG_PAD + (x * cell)
        py == SVG_PAD + (y * cell)
    IN  CASE mod_style = s_dots ->
               [tag |-> "circle", x |-> px + Max(1, cell \div 2), y |-> py + Max(1, cell \div 2),
                w |-> Max(1, cell \div 2), h |-> Max(1, cell \div 2), rx |-> 0]
          [] mod_style \in {s_rounded, s_squircle, s_soft} ->
               [tag |-> "rect", x |-> px, y |-> py, w |-> cell, h |-> cell,
                rx |-> Max(1, cell \div (IF mod_style = s_rounded THEN 4 ELSE 3))]
          [] mod_style = s_thin_line ->
               [tag |-> "rect",
                x |-> px + ((cell - Max(1, cell \div 3)) \div 2),
                y |-> py + ((cell - Max(1, cell \div 3)) \div 2),
                w |-> Max(1, cell \div 3), h |-> Max(1, cell \div 3), rx |-> 0]
          [] OTHER ->
               [tag |-> "rect", x |-> px, y |-> py, w |-> cell, h |-> cell, rx |-> 0]

\* the cells <<row, col>> of an n x n matrix in the order of the two loops of
\* lines 311-312
AllCells(n) == [i \in 1..(n * n) |-> <<(i - 1) \div n, (i - 1) % n>>]

\* lines 311-332: one element per cell of the sequence `on`
svg_elements(mod_style, on, cell) ==
    [i \in 1..Len(on) |-> svg_module(mod_style, on[i][2], on[i][1], cell)]

\* the loops without the test of line 313
svg_modules_every_cell(module_style, qr, cell) ==
    svg_elements(Lower(ToChars(Or(module_style, PyStr(s_square)))), AllCells(qr.n), cell)

\* lines 310-332: mod_style is lowered, not stripped; the cells that are off
\* are skipped (line 313)
svg_modules(module_style, qr, cell) ==
    svg_elements(Lower(ToChars(Or(module_style, PyStr(s_square)))),
                 SelectSeq(AllCells(qr.n), LAMBDA c : c \in qr.on),
                 cell)

\* lines 337-341: the three origins of the eye overlays of the SVG
svg_eye_origins(cell, n, border) ==
    {<<SVG_PAD + (border * cell), SVG_PAD + (border * cell)>>,
     <<SVG_PAD + ((n - border - 7) * cell), SVG_PAD + (border * cell)>>,
     <<SVG_PAD + (border * cell), SVG_PAD + ((n - border - 7) * cell)>>}

\* lines 334-343: the overlays appended, each the style passed to
\* _svg_eye_overlay and its origin <<x, y>>
svg_eyes(eye, qr, cell) ==
    IF eye \in {s_rounded, s_ring, s_target}
    THEN {[style |-> eye, origin |-> o] : o \in svg_eye_origins(cell, qr.n, qr.border)}
    ELSE {}

\* line 299: the height added for the caption
frame_extra(frame_style) ==
    IF frame_style \in {s_pill, s_floating} THEN 86
    ELSE IF frame_style = s_corner THEN 34 ELSE 0

\* lines 345-358: the caption drawn, if any
svg_frame(frame_style) ==
    IF frame_style \in {s_corner, s_floating, s_pill} THEN frame_style ELSE s_none

\* the SVG document, as its canvas and its elements
Svg(a, qr, cell, safe_fg, safe_bg, frame_style) ==
    [width   |-> (qr.n * cell) + (SVG_PAD * 2),
     height  |-> (qr.n * cell) + (SVG_PAD * 2) + frame_extra(frame_style),
     cell    |-> cell,
     fg      |-> safe_fg,
     bg      |-> safe_bg,
     modules |-> svg_modules(PyStr(a.module_style), qr, cell),
     eyes    |-> svg_eyes(Lower(Strip(ToChars(Or(PyStr(a.eye_style), PyStr(s_square))))), qr, cell),
     frame   |-> svg_frame(frame_style)]

\* _generate_svg_bytes: the matrix is built again from the payload (line 292)
svg_of_matrix(a, qr, safe_fg, safe_bg) ==
    Svg(a, qr, svg_cell(a.size, qr.n), safe_fg, safe_bg, FrameStyle(a.frame_style, a.frame_text))

generate_svg_bytes(a, safe_fg, safe_bg) ==
    svg_of_matrix(a, get_matrix(a.payload, Border(PyInt(a.quiet_zone))), safe_fg, safe_bg)

NoSvg ==
    [width |-> 0, height |-> 0, cell |-> 0, fg |-> <<>>, bg |-> <<>>,
     modules |-> <<>>, eyes |-> {}, frame |-> <<>>]

\* _to_pdf_bytes: a PDF of one page that holds the PNG
to_pdf_bytes(png_bytes) == [page |-> png_bytes]

NoResult ==
    [path |-> <<>>, bytes |-> NoImage, svg_bytes |-> NoSvg,
     pdf_bytes |-> to_pdf_bytes(NoImage), contrast_ratio |-> 0]

IdleCall ==
    [pc |-> "idle", args |-> PyNone, safe_fg |-> <<>>, safe_bg |-> <<>>,
     img |-> NoImage, file_path |-> <<>>, png_bytes |-> NoImage,
     error |-> "", result |-> NoResult]

\* the calls of generate_qr_png that may run at once
Calls == {"c1", "c2"}

\* a call is made: lines 371-389
GenEnter(c, a) ==
    /\ calls[c].pc = "idle"
    /\ calls' = [calls EXCEPT ![c] = [IdleCall EXCEPT !.pc = "build", !.args = a]]

\* lines 395-398: the colours are normalised and the matrix is built
GenBuild(c) ==
    /\ calls[c].pc = "build"
    /\ LET a  == calls[c].args
           qr == build_qr(a.payload, PyInt(a.quiet_zone))
           k  == calls[c]
       IN  calls' = [calls EXCEPT ![c] =
             IF qr.status = "raised"
             THEN [k EXCEPT !.pc = "raised", !.error = qr.error]
             ELSE [k EXCEPT !.pc = "mask",
                            !.safe_fg = normalize_hex(PyStr(a.fg), DEFAULT_FG),
                            !.safe_bg = normalize_hex(PyStr(a.bg), DEFAULT_BG)]]
    /\ UNCHANGED <<raw, resolved, files, clock, qrs, resp, history, again, redemptions, redeems, app>>

\* lines 400-408: the colour mask; ImageColor.getrgb parses both colours
GenMask(c) ==
    /\ calls[c].pc = "mask"
    /\ LET k == calls[c]
       IN  calls' = [calls EXCEPT ![c] =
             IF GetRgbRaises(k.safe_fg) \/ GetRgbRaises(k.safe_bg)
             THEN [k EXCEPT !.pc = "raised", !.error = "ValueError"]
             ELSE [k EXCEPT !.pc = "draw"]]
    /\ UNCHANGED <<raw, resolved, files, clock, qrs, resp, history, again, redemptions, redeems, app>>

\* lines 410-441, one statement a step: modules, eye overlays, resize, border,
\* logo, frame
DrawStep(k, r) ==
    IF r.status = "raised"
    THEN [k EXCEPT !.pc = "raised", !.error = "OSError"]
    ELSE [k EXCEPT !.pc = NextStage(k.pc), !.img = r.img]

GenDraw(c) ==
    /\ calls[c].pc \in Stages
    /\ calls' = [calls EXCEPT ![c] =
                    DrawStep(calls[c],
                             ApplyStage(calls[c].pc, calls[c].img, calls[c].args,
                                        calls[c].safe_fg, calls[c].safe_bg))]
    /\ UNCHANGED <<raw, resolved, files, clock, qrs, resp, history, again, redemptions, redeems, app>>

\* lines 443-446: the output path; time.time() is read here
GenName(c) ==
    /\ calls[c].pc = "name"
    /\ LET k == calls[c]
       IN  calls' = [calls EXCEPT ![c] =
             [k EXCEPT !.pc = "save", !.file_path = FileName(k.args.filename, clock)]]
    /\ UNCHANGED <<raw, resolved, files, clock, qrs, resp, history, again, redemptions, redeems, app>>

\* lines 448-452: the PNG is encoded and written to the path
GenSave(c) ==
    /\ calls[c].pc = "save"
    /\ LET k == calls[c]
       IN  /\ calls' = [calls EXCEPT ![c] = [k EXCEPT !.pc = "finish", !.png_bytes = k.img]]
           /\ files' = [n \in DOMAIN files \cup {k.file_path} |->
                           IF n = k.file_path THEN k.img ELSE files[n]]
    /\ UNCHANGED <<raw, resolved, clock, qrs, resp, history, again, redemptions, redeems, app>>

\* lines 454-485: SVG, PDF, the renderer's own contrast, the result
GenReturn(c) ==
    /\ calls[c].pc = "finish"
    /\ LET k == calls[c]
       IN  calls' = [calls EXCEPT ![c] =
             [k EXCEPT !.pc = "returned",
                       !.result = [path           |-> k.file_path,
                                   bytes          |-> k.png_bytes,
                                   svg_bytes      |-> generate_svg_bytes(k.args, k.safe_fg,
                                                                         k.safe_bg),
                                   pdf_bytes      |-> to_pdf_bytes(k.png_bytes),
                                   contrast_ratio |-> gen_contrast_ratio(PyStr(k.safe_fg),
                                                                         PyStr(k.safe_bg))]]]
    /\ UNCHANGED <<raw, resolved, files, clock, qrs, resp, history, again, redemptions, redeems, app>>

\* one step of a running call
GenStep(c) ==
    \/ GenBuild(c)
    \/ GenMask(c)
    \/ GenDraw(c)
    \/ GenName(c)
    \/ GenSave(c)
    \/ GenReturn(c)

-----------------------------------------------------------------------------
(* The inputs the model draws from *)

Styles ==
    {PyNone, PyStr(s_classic), PyStr(s_custom), PyStr(<<"n","e","o","n">>)}

FgColors ==
    {PyNone,
     PyStr(s_white),
     PyStr(s_black),
     PyStr(<<"#","F","F","0","0","0","0">>),
     PyStr(<<"F","F","F","F","F","F">>),
     PyStr(<<"#","G","G","G","G","G","G">>)}

BgColors ==
    {PyNone,
     PyStr(<<"#","F","F","F","F","F","E">>),
     PyStr(<<"#","8","0","8","0","8","0">>),
     PyStr(<<"w","h","i","t","e">>)}

ModuleStyles ==
    {PyNone, PyStr(s_thin_line), PyStr(<<" ","T","h","i","n","-","L","i","n","e"," ">>)}

Sizes ==
    {PyNone, PyInt(150), PyInt(500), PyInt(700), PyInt(2500),
     PyStr(<<"a","b","c">>)}

OutputPresets == {PyNone, PyStr(s_poster), PyStr(<<"A","4">>)}

SafeModes == {PyNone, PyStr(<<"o","n">>), PyStr(<<"o","f","f">>)}

EyeStyles == {PyNone, PyStr(<<"r","i","n","g">>), PyStr(<<"s","t","a","r">>)}

ExportFormats == {PyNone, PyStr(<<"S","V","G">>), PyStr(<<"g","i","f">>)}

FrameStyles ==
    {PyNone, PyStr(s_floating), PyStr(<<" ","P","i","l","l"," ">>), PyStr(<<"n","e","o","n">>)}

LogoScales ==
    {PyNone, PyInt(5), PyInt(15), PyInt(50), PyStr(<<"1","2">>), PyStr(<<"a","b","c">>)}

LogoBgModes == {PyNone, PyStr(<<"b","l","u","r">>)}

\* the colour, module, size and safe-mode inputs: in every combination under
\* the custom style, which reads the overrides, and with one override of each
\* kind under the other styles, which ignore them (line 101)
CoreInputs ==
    [style : {PyStr(s_custom)}, fg_color : FgColors, bg_color : BgColors,
     module_style : ModuleStyles, qr_size : Sizes, output_preset : OutputPresets,
     safe_mode : SafeModes,
     eye_style : {PyNone}, export_format : {PyNone}, frame_style : {PyNone},
     logo_scale : {PyNone}, logo_bg_mode : {PyNone}, quiet_zone : {PyNone}]
    \cup
    [style : Styles \ {PyStr(s_custom)},
     fg_color : {PyNone, PyStr(<<"#","F","F","0","0","0","0">>)},
     bg_color : {PyNone, PyStr(<<"#","8","0","8","0","8","0">>)},
     module_style : {PyNone, PyStr(s_thin_line)},
     qr_size : Sizes, output_preset : OutputPresets, safe_mode : SafeModes,
     eye_style : {PyNone}, export_format : {PyNone}, frame_style : {PyNone},
     logo_scale : {PyNone}, logo_bg_mode : {PyNone}, quiet_zone : {PyNone}]

\* the inputs that are resolved on their own, in every combination
ExtraInputs ==
    [style : {PyStr(s_custom), PyStr(s_classic)}, fg_color : {PyStr(s_black)},
     bg_color : {PyNone}, module_style : {PyNone}, qr_size : {PyNone},
     output_preset : {PyNone}, safe_mode : {PyStr(<<"o","n">>)},
     eye_style : EyeStyles, export_format : ExportFormats, frame_style : FrameStyles,
     logo_scale : LogoScales, logo_bg_mode : LogoBgModes, quiet_zone : {PyNone}]

\* a quiet zone sent with the form.  No route declares such a field and
\* resolve_design has no such parameter (lines 75-88), so it is never read.
QuietZones == {PyInt(0), PyInt(1), PyInt(3), PyInt(5), PyInt(13)}

QuietInputs ==
    [style : {PyStr(s_classic)}, fg_color : {PyNone}, bg_color : {PyNone},
     module_style : {PyNone}, qr_size : {PyNone},
     output_preset : {PyNone, PyStr(s_poster)}, safe_mode : SafeModes,
     eye_style : {PyNone}, export_format : {PyNone}, frame_style : {PyNone},
     logo_scale : {PyNone}, logo_bg_mode : {PyNone}, quiet_zone : QuietZones]

RawInputs == CoreInputs \cup ExtraInputs \cup QuietInputs

DefaultInput ==
    [style |-> PyNone, fg_color |-> PyNone, bg_color |-> PyNone,
     module_style |-> PyNone, qr_size |-> PyNone, output_preset |-> PyNone,
     safe_mode |-> PyNone, eye_style |-> PyNone, export_format |-> PyNone,
     frame_style |-> PyNone, logo_scale |-> PyNone, logo_bg_mode |-> PyNone,
     quiet_zone |-> PyNone]

\* payloads: a short one, one of exactly the largest size, and the 3000
\* characters of scenario E
Payloads ==
    {[id |-> "p1", len |-> 20], [id |-> "p2", len |-> 1273], [id |-> "big", len |-> 3000]}

\* the arguments of the concurrent calls
RenderArgs ==
    [payload : Payloads, size : {600},
     fg : {s_black, <<"#","G","G","G","G","G","G">>}, bg : {s_white},
     module_style : {s_square}, eye_style : {s_square},
     frame_text : {PyNone}, filename : {PyNone, PyStr(<<"a",".","p","n","g">>)},
     frame_style : {s_none}, quiet_zone : {4},
     logo_path : {PyNone}, logo_position : {"center"}]

\* the arguments of a single call: every module and eye style, one value
\* outside each set, and quiet zones inside, below and above the border's range
DrawModuleStyles ==
    {s_square, s_rounded, s_dots, s_soft, s_squircle, s_thin_line,
     <<"h","e","x">>, <<" ","D","o","t","s"," ">>}

DrawEyeStyles ==
    {s_square, s_rounded, s_ring, s_target, s_dots, <<"s","t","a","r">>, <<" ","R","i","n","g">>}

DrawQuietZones == {0, 1, 4, 13}

DrawArgs ==
    [payload : {[id |-> "p0", len |-> 7], [id |-> "p1", len |-> 20]}, size : {60, 600},
     fg : {s_black}, bg : {s_white},
     module_style : DrawModuleStyles, eye_style : DrawEyeStyles,
     frame_text : {PyNone}, filename : {PyStr(<<"a",".","p","n","g">>)},
     frame_style : {s_none}, quiet_zone : DrawQuietZones,
     logo_path : {PyNone}, logo_position : {"center"}]

\* the arguments of a single call with a caption, a frame or a logo: every
\* frame style, spellings of it the two outputs read differently, a caption
\* that is missing, empty or given, and a logo that is not given, not on disk,
\* not an image, or an image
DrawFrameStyles ==
    {s_none, <<>>, s_corner, s_floating, s_pill,
     <<" ","C","o","r","n","e","r">>, <<"b","a","d","g","e">>}

FrameTexts == {PyNone, PyStr(<<>>), PyStr(<<"H","i">>)}

LogoPaths == {PyNone, LogoMissing, LogoCorrupt, LogoGood}

FrameArgs ==
    [payload : {[id |-> "p0", len |-> 7]}, size : {60, 600},
     fg : {s_black}, bg : {s_white},
     module_style : {s_square}, eye_style : {s_square, s_ring},
     frame_text : FrameTexts, filename : {PyStr(<<"a",".","p","n","g">>)},
     frame_style : DrawFrameStyles, quiet_zone : {4},
     logo_path : LogoPaths, logo_position : {"center", "background"}]

\* how far the model lets the clock run
MaxClock == 1

-----------------------------------------------------------------------------
(* The resolver, followed by one render of what it resolved *)

NotResolved == [status |-> "none"]

InitCommon ==
    /\ again = NotResolved
    /\ calls = [c \in Calls |-> IdleCall]
    /\ files = <<>>
    /\ clock = 0

\* a route calls resolve_design with the form's fields (url.py lines 73-86)
Resolve ==
    /\ resolved.status = "none"
    /\ resolved' = resolve_design(raw)
    /\ UNCHANGED <<raw, calls, files, clock, qrs, resp, history, again, redemptions, redeems, app>>

\* the same form is resolved once more, after the first request is over
ResolveAgain ==
    /\ resolved.status # "none"
    /\ again.status = "none"
    /\ resolved.status = "ok" => calls["c1"].pc \in {"returned", "raised"}
    /\ again' = resolve_design(raw)
    /\ UNCHANGED <<raw, resolved, calls, files, clock, qrs, resp, history, redemptions, redeems, app>>

\* the route hands the Design to generate_qr_png (url.py lines 88-101)
RenderDesign(c) ==
    /\ resolved.status = "ok"
    /\ LET d == resolved.design
       IN  GenEnter(c, [payload      |-> [id |-> "p1", len |-> 20],
                        size         |-> d.qr_size,
                        fg           |-> d.fg,
                        bg           |-> d.bg,
                        module_style |-> d.module_style,
                        eye_style    |-> d.eye_style,
                        frame_text   |-> PyNone,
                        filename     |-> PyNone,
                        frame_style  |-> d.frame_style,
                        quiet_zone   |-> d.quiet_zone,
                        logo_path     |-> PyNone,
                        logo_position |-> "center"])
    /\ UNCHANGED <<raw, resolved, files, clock, qrs, resp, history, again, redemptions, redeems, app>>

-----------------------------------------------------------------------------
(* routes/qr/url.py and routes/qr/pdf.py: the edit and update handlers.     *)
(* models/qrcode.py and utils/access_control.py are not among the sources: *)
(* the row, set_data/get_data and can_edit_qr follow their use in the      *)
(* routes and in tests/test_tenant_isolation.py.                           *)

Users == {"owner", "editor", "attacker"}

\* users other than the owner who were given edit rights on a QR
EditGrants == {<<"editor", 1>>}

\* utils/access_control.py can_edit_qr
can_edit_qr(user, qr) == user = qr.user_id \/ <<user, qr.id>> \in EditGrants

NoData == [url |-> "", title |-> "", pdf_path |-> ""]

\* QRCode.set_data: the dict is stored encrypted
set_data(qr, data) == [qr EXCEPT !.encrypted_content = [cipher |-> data]]

\* QRCode.get_data: the decrypted dict
get_data(qr) == qr.encrypted_content.cipher

Row(id, user, slug, type, title, data) ==
    [id |-> id, user_id |-> user, slug |-> slug, type |-> type, title |-> title,
     dynamic_url |-> "/d/" \o slug, image_path |-> "static/generated_qr/" \o slug \o ".png",
     style |-> "modern", encrypted_content |-> [cipher |-> data]]

\* the rows of the test's seed, and a URL QR of the other tenant
SeedRows ==
    (1 :> Row(1, "owner", "tenant-isolation-slug", "url", "Owner QR",
              [NoData EXCEPT !.url = "https://owner.example.com"]))
    @@ (2 :> Row(2, "owner", "pdf-slug", "pdf", "Owner PDF",
                 [NoData EXCEPT !.title = "Owner PDF", !.pdf_path = "static/pdfs/pdf-slug.pdf"]))
    @@ (3 :> Row(3, "attacker", "other-slug", "url", "Other QR",
                 [NoData EXCEPT !.url = "https://attacker.example.com"]))

\* ids a request may name: the rows and one id that has no row
RequestIds == {1, 2, 3, 4}

Slugs == {"tenant-isolation-slug", "pdf-slug", "other-slug", "no-such-slug"}

NewUrls == {"https://owner-new.example.com", "https://evil.example.com"}

NewTitles == {"Updated Owner QR", "Hacked"}

\* db.query(QRCode).filter(QRCode.id == qr_id, QRCode.type == type).first()
FindById(db, qr_id, type) ==
    {id \in DOMAIN db : id = qr_id /\ db[id].type = type}

\* db.query(QRCode).filter(QRCode.slug == slug, QRCode.type == type).first()
FindBySlug(db, slug, type) ==
    {id \in DOMAIN db : db[id].slug = slug /\ db[id].type = type}

\* the status a handler answers with before it touches the row
Guard(db, found, user) ==
    IF found = {} THEN 404
    ELSE IF ~can_edit_qr(user, db[CHOOSE id \in found : TRUE]) THEN 403
    ELSE 200

\* url.py edit_qr
edit_qr(db, user, qr_id) ==
    [status |-> Guard(db, FindById(db, qr_id, "url"), user), db |-> db]

\* update_url_qr without the can_edit_qr test of lines 208-209
update_url_qr_unguarded(db, user, qr_id, url, title) ==
    LET found == FindById(db, qr_id, "url")
    IN  IF found = {} THEN [status |-> 404, db |-> db]
        ELSE LET id == CHOOSE i \in found : TRUE
                 qr == [set_data(db[id], [NoData EXCEPT !.url = url, !.title = title])
                            EXCEPT !.title = title]
             IN  [status |-> 200, db |-> [db EXCEPT ![id] = qr]]

\* update_url_qr storing the data without the new URL
update_url_qr_title_only(db, user, qr_id, url, title) ==
    LET found  == FindById(db, qr_id, "url")
        status == Guard(db, found, user)
    IN  IF status # 200 THEN [status |-> status, db |-> db]
        ELSE LET id == CHOOSE i \in found : TRUE
                 qr == [set_data(db[id], [get_data(db[id]) EXCEPT !.title = title])
                            EXCEPT !.title = title]
             IN  [status |-> 200, db |-> [db EXCEPT ![id] = qr]]

\* update_url_qr making a new slug and dynamic URL for the updated row
update_url_qr_new_slug(db, user, qr_id, url, title) ==
    LET found  == FindById(db, qr_id, "url")
        status == Guard(db, found, user)
    IN  IF status # 200 THEN [status |-> status, db |-> db]
        ELSE LET id == CHOOSE i \in found : TRUE
                 qr == [set_data(db[id], [NoData EXCEPT !.url = url, !.title = title])
                            EXCEPT !.title = title, !.slug = "new-slug",
                                   !.dynamic_url = "/d/new-slug"]
             IN  [status |-> 200, db |-> [db EXCEPT ![id] = qr]]

\* url.py update_url_qr
update_url_qr(db, user, qr_id, url, title) ==
    LET found  == FindById(db, qr_id, "url")
        status == Guard(db, found, user)
    IN  IF status # 200 THEN [status |-> status, db |-> db]
        ELSE LET id == CHOOSE i \in found : TRUE
                 qr == [set_data(db[id], [NoData EXCEPT !.url = url, !.title = title])
                            EXCEPT !.title = title]
             IN  [status |-> 200, db |-> [db EXCEPT ![id] = qr]]

\* pdf.py edit_pdf_qr
edit_pdf_qr(db, user, slug) ==
    [status |-> Guard(db, FindBySlug(db, slug, "pdf"), user), db |-> db]

\* pdf.py update_pdf_qr; upload is the uploaded file's name, "" for none
update_pdf_qr(db, user, qr_id, title, style, upload) ==
    LET found  == FindById(db, qr_id, "pdf")
        status == Guard(db, found, user)
    IN  IF status # 200 THEN [status |-> status, db |-> db]
        ELSE LET id   == CHOOSE i \in found : TRUE
                 old  == get_data(db[id])
                 d1   == [old EXCEPT !.title = title]
                 d2   == IF upload # ""
                         THEN [d1 EXCEPT !.pdf_path = "static/pdfs/" \o db[id].slug \o ".pdf"]
                         ELSE d1
                 qr   == set_data([db[id] EXCEPT !.title = title, !.style = style], d2)
             IN  [status |-> 200, db |-> [db EXCEPT ![id] = qr]]

NoResp == [route |-> "none", user |-> "", target |-> 0, slug |-> "", status |-> 0, url |-> "", title |-> ""]

\* GET /qr/url/edit/{qr_id}
EditUrlQr ==
    \E u \in Users, id \in RequestIds :
        LET r == edit_qr(qrs, u, id)
        IN  /\ qrs' = r.db
            /\ resp' = [NoResp EXCEPT !.route = "edit_url", !.user = u, !.target = id,
                                      !.status = r.status]
            /\ UNCHANGED <<raw, resolved, calls, files, clock, history, again, redemptions, redeems, app>>

\* POST /qr/url/update/{qr_id}
UpdateUrlQr ==
    \E u \in Users, id \in RequestIds, url \in NewUrls, title \in NewTitles :
        LET r == update_url_qr(qrs, u, id, url, title)
        IN  /\ qrs' = r.db
            /\ resp' = [NoResp EXCEPT !.route = "update_url", !.user = u, !.target = id,
                                      !.status = r.status, !.url = url, !.title = title]
            /\ history' = IF id \in DOMAIN history /\ can_edit_qr(u, qrs[id])
                          THEN [history EXCEPT ![id] = url]
                          ELSE history
            /\ UNCHANGED <<raw, resolved, calls, files, clock, again, redemptions, redeems, app>>

\* GET /qr/pdf/edit/{slug}
EditPdfQr ==
    \E u \in Users, slug \in Slugs :
        LET r == edit_pdf_qr(qrs, u, slug)
        IN  /\ qrs' = r.db
            /\ resp' = [NoResp EXCEPT !.route = "edit_pdf", !.user = u, !.slug = slug,
                                      !.status = r.status]
            /\ UNCHANGED <<raw, resolved, calls, files, clock, history, again, redemptions, redeems, app>>

\* POST /qr/pdf/update/{qr_id}
UpdatePdfQr ==
    \E u \in Users, id \in RequestIds, title \in NewTitles, upload \in {"", "new.pdf"} :
        LET r == update_pdf_qr(qrs, u, id, title, "modern", upload)
        IN  /\ qrs' = r.db
            /\ resp' = [NoResp EXCEPT !.route = "update_pdf", !.user = u, !.target = id,
                                      !.status = r.status, !.title = title]
            /\ UNCHANGED <<raw, resolved, calls, files, clock, history, again, redemptions, redeems, app>>

-----------------------------------------------------------------------------
(* routes/qr/coupon.py: redeeming a coupon.  models/coupon_redemption.py   *)
(* and the database session are not among the sources: the table is a set  *)
(* of rows, every request has a session of its own, and each query and the *)
(* commit is one step on the database.                                      *)

\* expires_at of a coupon: empty, or an ISO date, as the second it names
NoExpiry == [t |-> "empty", at |-> 0]

ExpiresAt(at) == [t |-> "iso", at |-> at]

\* the coupon QRs, with the data of their creation (lines 130-136): one for
\* two redemptions, one without a limit, one for one redemption that expires
CouponRows ==
    {[id |-> 11, slug |-> "two",  max_redemptions |-> 2, expires_at |-> NoExpiry],
     [id |-> 12, slug |-> "free", max_redemptions |-> 0, expires_at |-> NoExpiry],
     [id |-> 13, slug |-> "old",  max_redemptions |-> 1, expires_at |-> ExpiresAt(0)]}

\* the slugs a request may name: the coupons and one that is none
CouponSlugs == {"two", "free", "old", "none"}

\* the clients that send redeem requests, and how many each may send
Redeemers == {"r1", "r2", "r3"}

MaxRequests == 1

\* _is_expired, lines 36-45
is_expired(expires_at, now) == expires_at.t = "iso" /\ now > expires_at.at

\* db.query(QRCode).filter(QRCode.slug == slug, QRCode.type == "coupon").first()
FindCoupon(slug) == {q \in CouponRows : q.slug = slug}

\* db.query(CouponRedemption).filter(CouponRedemption.qr_id == qr.id).count()
CountRedemptions(rows, qr_id) == Cardinality({x \in rows : x.qr_id = qr_id})

IdleRedeem == [pc |-> "idle", slug |-> "", current |-> 0, outcome |-> "", made |-> 0]

\* redeem_coupon, lines 197-203: the coupon is looked up and its expiry tested
redeem_lookup(k, slug, now) ==
    IF FindCoupon(slug) = {}
    THEN [k EXCEPT !.pc = "done", !.slug = slug, !.current = 0, !.outcome = "404",
                   !.made = k.made + 1]
    ELSE IF is_expired((CHOOSE q \in FindCoupon(slug) : TRUE).expires_at, now)
    THEN [k EXCEPT !.pc = "done", !.slug = slug, !.current = 0, !.outcome = "expired",
                   !.made = k.made + 1]
    ELSE [k EXCEPT !.pc = "count", !.slug = slug, !.current = 0, !.outcome = "",
                   !.made = k.made + 1]

\* lines 205-208: the redemptions are counted and compared with the limit
redeem_count(k, rows) ==
    IF /\ (CHOOSE q \in FindCoupon(k.slug) : TRUE).max_redemptions > 0
       /\ CountRedemptions(rows, (CHOOSE q \in FindCoupon(k.slug) : TRUE).id)
            >= (CHOOSE q \in FindCoupon(k.slug) : TRUE).max_redemptions
    THEN [k EXCEPT !.pc = "done", !.outcome = "soldout",
                   !.current = CountRedemptions(rows, (CHOOSE q \in FindCoupon(k.slug) : TRUE).id)]
    ELSE [k EXCEPT !.pc = "insert",
                   !.current = CountRedemptions(rows, (CHOOSE q \in FindCoupon(k.slug) : TRUE).id)]

\* lines 210-216: the row that is added, told apart by the request it is of
NewRedemption(r, k) ==
    [qr_id |-> (CHOOSE q \in FindCoupon(k.slug) : TRUE).id, by |-> r, request |-> k.made]

\* POST /qr/coupon/redeem/{slug} arrives
RedeemLookup(r) ==
    /\ redeems[r].pc \in {"idle", "done"}
    /\ redeems[r].made < MaxRequests
    /\ \E slug \in CouponSlugs :
          redeems' = [redeems EXCEPT ![r] = redeem_lookup(redeems[r], slug, clock)]
    /\ UNCHANGED <<raw, resolved, calls, files, clock, qrs, resp, history, again, redemptions, app>>

RedeemCount(r) ==
    /\ redeems[r].pc = "count"
    /\ redeems' = [redeems EXCEPT ![r] = redeem_count(redeems[r], redemptions)]
    /\ UNCHANGED <<raw, resolved, calls, files, clock, qrs, resp, history, again, redemptions, app>>

\* lines 216-218: db.add, db.commit and the redirect
RedeemCommit(r) ==
    /\ redeems[r].pc = "insert"
    /\ redemptions' = redemptions \cup {NewRedemption(r, redeems[r])}
    /\ redeems' = [redeems EXCEPT ![r] = [redeems[r] EXCEPT !.pc = "done", !.outcome = "redeemed"]]
    /\ UNCHANGED <<raw, resolved, calls, files, clock, qrs, resp, history, again, app>>

-----------------------------------------------------------------------------
(* utils/app_url.py and routes/qr/dynamic_url.py *)

\* str.rstrip("/")
RECURSIVE RStripSlash(_)
RStripSlash(s) ==
    IF s # <<>> /\ s[Len(s)] = "/" THEN RStripSlash(SubSeq(s, 1, Len(s) - 1)) ELSE s

\* sub in s
Contains(s, sub) ==
    \E i \in 1..(Len(s) - Len(sub) + 1) : SubSeq(s, i, i + Len(sub) - 1) = sub

s_localhost == <<"l","o","c","a","l","h","o","s","t">>

s_loopback == <<"1","2","7",".","0",".","0",".","1">>

APP_FALLBACK == <<"h","t","t","p",":","/","/","1","2","7",".","0",".","0",".","1",":","8","0","0","0">>

\* resolve_app_base_url, line 19: request is None or the str of its base_url
request_base(request) ==
    IF request.t = "none" THEN <<>> ELSE RStripSlash(ToChars(request))

\* line 20: os.getenv(env_var, ""), None when the variable is not set
env_base(env) ==
    RStripSlash(Strip(IF env.t = "none" THEN <<>> ELSE ToChars(env)))

\* lines 22-28
PickBase(req, env) ==
    IF req # <<>> /\ (Contains(req, s_localhost) \/ Contains(req, s_loopback)) THEN req
    ELSE IF env # <<>> THEN env
    ELSE IF req # <<>> THEN req
    ELSE APP_FALLBACK

resolve_app_base_url(request, env) == PickBase(request_base(request), env_base(env))

\* dynamic_url.py build_dynamic_url
build_dynamic_url(request, env, slug) ==
    resolve_app_base_url(request, env) \o <<"/","d","/">> \o slug

\* requests: none, on localhost, on 127.0.0.1, on a public host, and on
\* public hosts whose names contain "localhost" and "127.0.0.1"
AppRequests ==
    {PyNone,
     PyStr(<<"h","t","t","p",":","/","/","l","o","c","a","l","h","o","s","t",":","8","0","0","0","/">>),
     PyStr(<<"h","t","t","p",":","/","/","1","2","7",".","0",".","0",".","1",":","8","0","0","0","/">>),
     PyStr(<<"h","t","t","p","s",":","/","/","q","r",".","i","o","/">>),
     PyStr(<<"h","t","t","p",":","/","/","l","o","c","a","l","h","o","s","t",".","i","o","/">>),
     PyStr(<<"h","t","t","p",":","/","/","1","2","7",".","0",".","0",".","1",".","i","o","/">>)}

\* APP_DOMAIN: not set, empty, set, set with blanks and a slash around it
AppEnvs ==
    {PyNone, PyStr(<<>>), PyStr(<<"h","t","t","p","s",":","/","/","a","p","p",".","i","o">>), PyStr(<<" ","h","t","t","p","s",":","/","/","a","p","p",".","i","o","/"," ">>)}

AppSlugs == {<<"a","b">>, <<"x","1">>}

NoUrl == <<"?">>

NoApp == [request |-> PyNone, env |-> PyNone, slug |-> <<>>, base |-> NoUrl, url |-> NoUrl]

AppInputs ==
    [request : AppRequests, env : AppEnvs, slug : AppSlugs, base : {NoUrl}, url : {NoUrl}]

\* a caller asks for the base URL
ResolveBase ==
    /\ app.base = NoUrl
    /\ app' = [app EXCEPT !.base = resolve_app_base_url(app.request, app.env)]
    /\ UNCHANGED <<raw, resolved, calls, files, clock, qrs, resp, history, again, redemptions, redeems>>

\* a route builds the dynamic URL of a slug; it always has a request
BuildDynamicUrl ==
    /\ app.url = NoUrl
    /\ app.request.t # "none"
    /\ app' = [app EXCEPT !.url = build_dynamic_url(app.request, app.env, app.slug)]
    /\ UNCHANGED <<raw, resolved, calls, files, clock, qrs, resp, history, again, redemptions, redeems>>

-----------------------------------------------------------------------------
(* Specifications *)

\* no redeem request yet, no redemption stored
InitCoupons ==
    /\ redemptions = {}
    /\ redeems = [r \in Redeemers |-> IdleRedeem]

InitRoutes ==
    /\ qrs = SeedRows
    /\ resp = NoResp
    /\ history = [id \in {i \in DOMAIN SeedRows : SeedRows[i].type = "url"} |->
                    get_data(SeedRows[id]).url]

\* a form is resolved and the Design rendered once
InitDesign ==
    /\ raw \in RawInputs
    /\ resolved = NotResolved
    /\ InitCommon
    /\ InitRoutes
    /\ InitCoupons
    /\ app = NoApp

NextDesign ==
    \/ Resolve
    \/ ResolveAgain
    \/ RenderDesign("c1")
    \/ GenStep("c1")

SpecDesign == InitDesign /\ [][NextDesign]_vars

\* generate_qr_png is called from several workers at once
InitRender ==
    /\ raw = DefaultInput
    /\ resolved = NotResolved
    /\ InitCommon
    /\ InitRoutes
    /\ InitCoupons
    /\ app = NoApp

StartCall(c) ==
    /\ \E a \in RenderArgs : GenEnter(c, a)
    /\ UNCHANGED <<raw, resolved, files, clock, qrs, resp, history, again, redemptions, redeems, app>>

Tick ==
    /\ clock < MaxClock
    /\ clock' = clock + 1
    /\ UNCHANGED <<raw, resolved, calls, files, qrs, resp, history, again, redemptions, redeems, app>>

NextRender ==
    \/ \E c \in Calls : StartCall(c)
    \/ \E c \in Calls : GenStep(c)
    \/ Tick

SpecRender == InitRender /\ [][NextRender]_vars

\* one call of generate_qr_png at a time, over DrawArgs
InitDraw ==
    /\ raw = DefaultInput
    /\ resolved = NotResolved
    /\ InitCommon
    /\ InitRoutes
    /\ InitCoupons
    /\ app = NoApp

StartDraw ==
    /\ \E a \in DrawArgs : GenEnter("c1", a)
    /\ UNCHANGED <<raw, resolved, files, clock, qrs, resp, history, again, redemptions, redeems, app>>

NextDraw ==
    \/ StartDraw
    \/ GenStep("c1")

SpecDraw == InitDraw /\ [][NextDraw]_vars

\* one call of generate_qr_png at a time, over FrameArgs
InitFrame ==
    /\ raw = DefaultInput
    /\ resolved = NotResolved
    /\ InitCommon
    /\ InitRoutes
    /\ InitCoupons
    /\ app = NoApp

StartFrame ==
    /\ \E a \in FrameArgs : GenEnter("c1", a)
    /\ UNCHANGED <<raw, resolved, files, clock, qrs, resp, history, again, redemptions, redeems, app>>

NextFrame ==
    \/ StartFrame
    \/ GenStep("c1")

SpecFrame == InitFrame /\ [][NextFrame]_vars

\* redeem requests of several clients at once, while time passes
InitCoupon ==
    /\ raw = DefaultInput
    /\ resolved = NotResolved
    /\ InitCommon
    /\ InitRoutes
    /\ InitCoupons
    /\ app = NoApp

NextCoupon ==
    \/ \E r \in Redeemers : RedeemLookup(r)
    \/ \E r \in Redeemers : RedeemCount(r)
    \/ \E r \in Redeemers : RedeemCommit(r)
    \/ Tick

SpecCoupon == InitCoupon /\ [][NextCoupon]_vars

\* the base URL and the dynamic URL of every request and environment
InitApp ==
    /\ raw = DefaultInput
    /\ resolved = NotResolved
    /\ InitCommon
    /\ InitRoutes
    /\ InitCoupons
    /\ app \in AppInputs

NextApp ==
    \/ ResolveBase
    \/ BuildDynamicUrl

SpecApp == InitApp /\ [][NextApp]_vars

\* the edit and update routes serve requests one after the other
InitUrl ==
    /\ raw = DefaultInput
    /\ resolved = NotResolved
    /\ InitCommon
    /\ InitRoutes
    /\ InitCoupons
    /\ app = NoApp

NextUrl ==
    \/ EditUrlQr
    \/ UpdateUrlQr
    \/ EditPdfQr
    \/ UpdatePdfQr

SpecUrl == InitUrl /\ [][NextUrl]_vars

-----------------------------------------------------------------------------
(* Properties *)

Done(c) == calls[c].pc = "returned"

CustomStyle == StyleKey(raw.style) = s_custom

\* C1: every Design that resolve_design returns has 200 <= qr_size <= 2000,
\* 2 <= quiet_zone <= 12, 72 <= dpi <= 600 and 8 <= logo_scale <= 20, whatever
\* the raw inputs and the safe_mode flag.
C1_DesignInRange ==
    resolved.status = "ok" =>
        LET d == resolved.design
        IN  /\ 200 <= d.qr_size /\ d.qr_size <= 2000
            /\ 2 <= d.quiet_zone /\ d.quiet_zone <= 12
            /\ 72 <= d.dpi /\ d.dpi <= 600
            /\ 8 <= d.logo_scale /\ d.logo_scale <= 20

\* an oversized qr_size was resolved, under safe mode, to the upper limit
C1_Witness ==
    /\ resolved.status = "ok"
    /\ raw.qr_size = PyInt(2500)
    /\ resolved.design.safe_mode
    /\ resolved.design.qr_size = 2000

\* C2: under a style key that is not custom, the resolved fg, bg, module_style
\* and eye_style are the preset's own values, whichever overrides were supplied
\* and whether or not safe mode is on.
C2_PresetLocked ==
    (resolved.status = "ok" /\ ~CustomStyle) =>
        LET d == resolved.design
            p == QR_THEMES(d.style)
        IN  /\ d.fg = p.fg
            /\ d.bg = p.bg
            /\ d.module_style = p.module_style
            /\ d.eye_style = p.eye_style

\* scenario A: classic with a red foreground override, a background override
\* and a thin-line module override, under safe mode
C2_Witness ==
    /\ resolved.status = "ok"
    /\ raw.style = PyStr(s_classic)
    /\ raw.fg_color = PyStr(<<"#","F","F","0","0","0","0">>)
    /\ raw.bg_color = PyStr(<<"#","8","0","8","0","8","0">>)
    /\ raw.module_style = PyStr(s_thin_line)
    /\ resolved.design.safe_mode
    /\ resolved.design.fg = s_black

\* C3: when safe mode is requested the resolved contrast_ratio is at least 4.5
\* (and is the contrast of the resolved pair), and whenever the uncorrected
\* pair had a contrast below 4.5 the Design has safe_mode_applied = true.
C3_SafeContrast ==
    (resolved.status = "ok" /\ resolved.design.safe_mode) =>
        LET d == resolved.design
            u == Uncorrected(raw)
        IN  /\ d.contrast_ratio >= 4500
            /\ d.contrast_ratio = design_contrast_ratio(PyStr(d.fg), PyStr(d.bg))
            /\ (design_contrast_ratio(PyStr(u.fg), PyStr(u.bg)) < 4500 => d.safe_mode_applied)

\* scenario B: custom, white on #FFFFFE, safe mode on
C3_Witness ==
    /\ resolved.status = "ok"
    /\ CustomStyle
    /\ raw.fg_color = PyStr(s_white)
    /\ raw.bg_color = PyStr(<<"#","F","F","F","F","F","E">>)
    /\ resolved.design.safe_mode
    /\ resolved.design.safe_mode_applied
    /\ resolved.design.contrast_ratio >= 4500

\* C4: resolve_design returns a Design and raises no error for any raw input;
\* a numeric input that cannot be parsed (qr_size, logo_scale) falls back to the
\* default of its field.
C4_NeverRaises ==
    /\ resolved.status # "raised"
    /\ (resolved.status = "ok" /\ IntFails(Or(raw.logo_scale, PyInt(20))))
            => resolved.design.logo_scale = 20
    /\ (resolved.status = "ok" /\ IntFails(Or(raw.qr_size, PyInt(0))))
            => resolved.design.qr_size
                 = PRESET_EXPORT_CONFIG(resolved.design.output_preset).size

\* C5: under the custom style every fg_color/bg_color string goes through
\* resolve_design and generate_qr_png without an error.
C5_ColoursNeverFail ==
    (CustomStyle /\ ~LogoScaleRaises(raw.logo_scale)) =>
        /\ resolved.status # "raised"
        /\ \A c \in Calls : calls[c].pc # "raised"

\* C6: a payload that fits no matrix version at level H makes generate_qr_png
\* fail with the overflow error: the call returns no result, and no file holds
\* an image of that payload.
C6_PayloadTooLarge ==
    \A c \in Calls :
        (calls[c].pc # "idle" /\ calls[c].args.payload.len > QR_MAX_BYTES_H) =>
            /\ calls[c].pc \in {"build", "raised"}
            /\ calls[c].pc = "raised" => calls[c].error = "DataOverflowError"
            /\ calls[c].result = NoResult
            /\ calls[c].png_bytes = NoImage
            /\ \A n \in DOMAIN files : files[n].payload # calls[c].args.payload.id

\* a call with the 3000-character payload has failed while the other call
\* wrote its file
C6_Witness ==
    \E c \in Calls :
        /\ calls[c].pc = "raised"
        /\ calls[c].error = "DataOverflowError"
        /\ calls[c].args.payload.len = 3000
        /\ DOMAIN files # {}

\* the row a request names, for the route it was sent to
Target(r) ==
    CASE r.route \in {"edit_url", "update_url"} -> FindById(qrs, r.target, "url")
      [] r.route = "update_pdf"                 -> FindById(qrs, r.target, "pdf")
      [] r.route = "edit_pdf"                   -> FindBySlug(qrs, r.slug, "pdf")
      [] OTHER                                  -> {}

\* the request is for a QR its user has no edit rights on
Denied(r) ==
    /\ Target(r) # {}
    /\ \A id \in Target(r) : ~can_edit_qr(r.user, qrs[id])

\* C7: a request to open the edit page or to POST an update of a QR, made by a
\* user for whom can_edit_qr is false, is answered with 403 and leaves every
\* row (its data and its title) as it was.
C7_DeniedIs403 ==
    [][Denied(resp') => (resp'.status = 403 /\ qrs' = qrs)]_vars

\* the attacker's update of the owner's URL QR was answered with 403
C7_Witness ==
    /\ resp.route = "update_url"
    /\ resp.user = "attacker"
    /\ resp.target = 1
    /\ resp.status = 403
    /\ Denied(resp)

\* C8: after any sequence of update requests on a URL QR, the stored target URL
\* is the URL of the latest request made by a user with edit rights, or the
\* original URL when there was none.
C8_LatestEditorUrl ==
    \A id \in DOMAIN history : get_data(qrs[id]).url = history[id]

\* the owner's QR holds an editor's URL after a later refused request that
\* carried another URL
C8_Witness ==
    /\ resp.route = "update_url"
    /\ resp.target = 1
    /\ resp.status = 403
    /\ history[1] # get_data(SeedRows[1]).url
    /\ resp.url # history[1]
    /\ get_data(qrs[1]).url = history[1]

\* C9: the contrast_ratio generate_qr_png returns for a resolved Design equals
\* the Design's contrast_ratio.
C9_ContrastAgrees ==
    \A c \in Calls :
        (Done(c) /\ resolved.status = "ok") =>
            calls[c].result.contrast_ratio = resolved.design.contrast_ratio

\* the normalised colours and the image a call's own arguments give
OwnImage(c) ==
    Image(calls[c].args,
          normalize_hex(PyStr(calls[c].args.fg), DEFAULT_FG),
          normalize_hex(PyStr(calls[c].args.bg), DEFAULT_BG))

\* C10: under every interleaving, a call that returns returns the PNG of its
\* own payload and design, and the file at the path it returns holds that PNG.
C10_OwnFileAtReturn ==
    [][\A c \in Calls :
         (calls[c].pc = "finish" /\ calls'[c].pc = "returned") =>
            /\ calls'[c].result.bytes = OwnImage(c)
            /\ calls'[c].result.path \in DOMAIN files'
            /\ files'[calls'[c].result.path] = calls'[c].result.bytes]_vars

\* the values the Design's enumerated fields may take
ModuleEnum == {s_square, s_rounded, s_dots, s_soft, s_squircle, s_thin_line}

EyeEnum == {s_square, s_rounded, s_ring, s_target, s_dots}

FrameEnum == {s_none, s_corner, s_floating, s_pill}

\* C11: every resolved Design has module_style in {square, rounded, dots, soft,
\* squircle, thin-line}, eye_style in {square, rounded, ring, target, dots} and
\* frame_style in {none, corner, floating, pill}; an unknown module, eye or
\* frame input resolves to square, square and none.
C11_EnumsClosed ==
    resolved.status = "ok" =>
        /\ resolved.design.module_style \in ModuleEnum
        /\ resolved.design.eye_style \in EyeEnum
        /\ resolved.design.frame_style \in FrameEnum

\* str(x or default).strip().lower(), the normal form of an enum input
NormKey(x, default) == Lower(Strip(ToChars(Or(x, PyStr(default)))))

\* C12: resolve_design maps every style key that is neither custom nor a known
\* preset to classic, every unknown output_preset to web and every unknown
\* export_format to png; a known key is kept.
C12_EnumFallbacks ==
    resolved.status = "ok" =>
        LET d == resolved.design
            s == NormKey(raw.style, s_modern)
            o == NormKey(raw.output_preset, s_web)
            e == NormKey(raw.export_format, s_png)
        IN  /\ d.style = (IF s \in {s_custom} \cup QR_THEMES_keys THEN s ELSE s_classic)
            /\ d.output_preset = (IF o \in {s_web, s_print, s_sticker, s_poster} THEN o ELSE s_web)
            /\ d.export_format = (IF e \in {s_png, s_svg, s_pdf, s_zip} THEN e ELSE s_png)

\* an unknown export format was resolved to png
C12_Witness ==
    /\ resolved.status = "ok"
    /\ raw.export_format = PyStr(<<"g","i","f">>)
    /\ resolved.design.export_format = s_png

\* C13: when safe mode is requested, no resolved Design that the renderer draws
\* with thin-line modules (whatever the letter case or the surrounding
\* whitespace of the requested value) has qr_size < 700: such a request
\* resolves to module_style square with safe_mode_applied = true.
C13_NoSmallThinLine ==
    (resolved.status = "ok" /\ resolved.design.safe_mode
        /\ module_drawer(PyStr(Uncorrected(raw).module)) = "VerticalBarsDrawer"
        /\ resolved.design.qr_size < 700) =>
            /\ resolved.design.module_style = s_square
            /\ resolved.design.safe_mode_applied

\* C14: a requested quiet zone of 0 is clamped to 2 when safe mode is off and
\* raised to 4 when safe mode is on; in general a requested quiet zone below 4
\* yields max(2, requested) without safe mode and 4 with safe mode.
C14_QuietZoneRequest ==
    (resolved.status = "ok" /\ raw.quiet_zone.t = "int" /\ raw.quiet_zone.n < 4) =>
        resolved.design.quiet_zone
            = (IF resolved.design.safe_mode THEN 4 ELSE Max(2, raw.quiet_zone.n))

\* the call has drawn its image
Drawn(c) == calls[c].pc \in {"name", "save", "finish", "returned"}

\* C15: for every quiet_zone value q handed to the matrix builder, the border
\* of the matrix is min(max(q, 2), 12), the clamp of the Design's quiet_zone,
\* including q = 0 and q = 1.
C15_BorderClamp ==
    \A c \in Calls :
        Drawn(c) =>
            calls[c].img.border = Min(Max(calls[c].args.quiet_zone, 2), 12)

\* the five warnings in the order of the spec, each with its condition on
\* the Design d
Due(d, kind) ==
    CASE kind = "low_contrast"   -> d.contrast_ratio < 4500
      [] kind = "thin_line"      -> d.module_style = s_thin_line /\ d.qr_size < 700
      [] kind = "quiet_zone"     -> d.quiet_zone < 4
      [] kind = "floating_frame" -> d.frame_style = s_floating
      [] kind = "safe_mode"      -> d.safe_mode /\ d.safe_mode_applied

WarningKinds == <<"low_contrast", "thin_line", "quiet_zone", "floating_frame", "safe_mode">>

\* C16: the warnings of a resolved Design are evaluated against its final
\* values: each of the five is present exactly when its condition holds of the
\* final contrast_ratio, module_style and qr_size, quiet_zone, frame_style and
\* safe_mode_applied; they appear in that order, the low-contrast one with the
\* final ratio.
C16_WarningsFinal ==
    resolved.status = "ok" =>
        LET d    == resolved.design
            due  == SelectSeq(WarningKinds, LAMBDA k : Due(d, k))
        IN  /\ Len(d.warnings) = Len(due)
            /\ \A i \in 1..Len(due) :
                 /\ d.warnings[i].kind = due[i]
                 /\ d.warnings[i].ratio
                      = (IF due[i] = "low_contrast" THEN Fmt2(d.contrast_ratio) ELSE 0)

\* a Design with two warnings: low contrast, then thin-line
C16_Witness ==
    /\ resolved.status = "ok"
    /\ Len(resolved.design.warnings) = 2
    /\ resolved.design.warnings[1].kind = "low_contrast"
    /\ resolved.design.warnings[2].kind = "thin_line"

MatrixOf(c) == get_matrix(calls[c].args.payload, calls[c].img.border)

\* the three finder corners of a matrix, as the cells <<col, row>> an eye
\* overlay starts at
Corners(qr) ==
    {<<qr.border, qr.border>>,
     <<qr.n - qr.border - 7, qr.border>>,
     <<qr.border, qr.n - qr.border - 7>>}

\* C18: for eye_style rounded, ring, target and dots the raster image and the
\* SVG both carry an eye overlay of that style at the same three finder
\* corners; for square neither carries one.
C18_EyesAgree ==
    \A c \in Calls :
        calls[c].pc = "returned" =>
            LET r   == calls[c].result
                qr  == MatrixOf(c)
                eye == r.bytes.eye
                at(px, cell) == {[style |-> eye, origin |-> <<o[1] * cell + px, o[2] * cell + px>>] :
                                    o \in Corners(qr)}
            IN  /\ eye \in {s_rounded, s_ring, s_target, s_dots} =>
                      /\ r.bytes.eyes = at(0, BOX_SIZE)
                      /\ r.svg_bytes.eyes = at(SVG_PAD, r.svg_bytes.cell)
                /\ eye = s_square =>
                      /\ r.bytes.eyes = {}
                      /\ r.svg_bytes.eyes = {}

\* the cell <<row, col>> an element of the SVG lies in
CellOf(el, cell) == <<(el.y - SVG_PAD) \div cell, (el.x - SVG_PAD) \div cell>>

\* C19: the module elements of the SVG are the on cells of the matrix: one
\* element per cell that is on, lying in that cell, and none for a cell that
\* is off.
C19_SvgModulesAreMatrix ==
    \A c \in Calls :
        calls[c].pc = "returned" =>
            LET svg == calls[c].result.svg_bytes
                qr  == MatrixOf(c)
            IN  /\ Len(svg.modules) = Cardinality(qr.on)
                /\ {CellOf(svg.modules[i], svg.cell) : i \in 1..Len(svg.modules)} = qr.on

\* a returned SVG of circles whose cell was raised to 2, for a matrix with
\* the widest border
C19_Witness ==
    /\ calls["c1"].pc = "returned"
    /\ calls["c1"].result.svg_bytes.cell = 2
    /\ calls["c1"].img.border = 12
    /\ calls["c1"].result.svg_bytes.modules # <<>>
    /\ calls["c1"].result.svg_bytes.modules[1].tag = "circle"

\* the shape class of a raster drawer
RasterShape(drawer) ==
    CASE drawer = "SquareModuleDrawer"       -> "square"
      [] drawer = "RoundedModuleDrawer"      -> "rounded"
      [] drawer = "CircleModuleDrawer"       -> "circle"
      [] drawer = "GappedSquareModuleDrawer" -> "gapped"
      [] drawer = "VerticalBarsDrawer"       -> "bar"

\* the shape class of an element of the SVG in a cell of side `cell`: a
\* circle, a rect that fills its cell with square or rounded corners, a bar
\* of the cell's height, or a square smaller than its cell
SvgShape(el, cell) ==
    IF el.tag = "circle" THEN "circle"
    ELSE IF el.w = cell /\ el.h = cell THEN (IF el.rx = 0 THEN "square" ELSE "rounded")
    ELSE IF el.h = cell THEN "bar"
    ELSE "gapped"

\* C20: for every module_style the raster drawer and the SVG renderer select
\* the same shape class: square a filled square, rounded and squircle a
\* rounded square, dots a circle, soft a square with a gap, thin-line a
\* vertical bar, any other value a filled square.
C20_SameShape ==
    \A c \in Calls :
        calls[c].pc = "returned" =>
            LET r == calls[c].result
            IN  \A i \in 1..Len(r.svg_bytes.modules) :
                    SvgShape(r.svg_bytes.modules[i], r.svg_bytes.cell)
                        = RasterShape(r.bytes.drawer)

\* C21: for every frame_style handed to generate_qr_png the SVG canvas
\* accounts for the same frame padding as the raster canvas: both draw the
\* same frame treatment (corner, floating, pill or none) and both canvases
\* are wider and higher than without a frame by the same amounts.
C21_FramePadding ==
    \A c \in Calls :
        calls[c].pc = "returned" =>
            LET r    == calls[c].result
                png  == r.bytes
                svg  == r.svg_bytes
                bare == calls[c].args.size + 2 * EXPAND_BORDER
                qr_w == (MatrixOf(c).n * svg.cell) + 2 * SVG_PAD
            IN  /\ png.frame = svg.frame
                /\ png.width - bare = svg.width - qr_w
                /\ png.height - bare = svg.height - qr_w

\* the stages of the raster image in the order of the spec
StageOrder == <<"modules", "eyes", "resize", "border", "logo", "frame">>

StageRank(s) == CHOOSE i \in 1..Len(StageOrder) : StageOrder[i] = s

\* C22: in every run of generate_qr_png the raster stages happen in the order
\* module drawing, eye overlay, resize to size, quiet-border padding, logo
\* compositing, frame compositing: at every moment the stages done so far are
\* in that order, the first five are all done once the image is drawn, and
\* the eye overlays lie where the unscaled modules are (BOX_SIZE pixels a
\* module), so never before the modules nor after the logo or the frame.
C22_StageOrder ==
    \A c \in Calls :
        LET st == calls[c].img.stages
        IN  /\ \A i, j \in 1..Len(st) : i < j => StageRank(st[i]) < StageRank(st[j])
            /\ Drawn(c) =>
                 /\ Len(st) >= 5
                 /\ SubSeq(st, 1, 5) = SubSeq(StageOrder, 1, 5)
                 /\ calls[c].img.eyes
                      = draw_eye_overlays(PyStr(calls[c].args.eye_style), MatrixOf(c),
                                          MatrixOf(c).n * BOX_SIZE)

\* a returned image with ring overlays, a logo in the centre and a corner
\* frame: all six stages drew
C22_Witness ==
    /\ calls["c1"].pc = "returned"
    /\ calls["c1"].result.bytes.stages = StageOrder
    /\ calls["c1"].result.bytes.eyes # {}
    /\ calls["c1"].result.bytes.logo = "center"
    /\ calls["c1"].result.bytes.frame = s_corner

\* C23: when a non-empty caption is supplied and frame_style is none or
\* empty, generate_qr_png falls back to the pill frame in both the PNG and
\* the SVG; with no caption and frame_style none, no frame is drawn in
\* either.
C23_PillFallback ==
    \A c \in Calls :
        calls[c].pc = "returned" =>
            LET a == calls[c].args
                r == calls[c].result
            IN  /\ (Truthy(a.frame_text) /\ a.frame_style \in {s_none, <<>>}) =>
                      /\ r.bytes.frame = s_pill
                      /\ r.svg_bytes.frame = s_pill
                /\ (~Truthy(a.frame_text) /\ a.frame_style = s_none) =>
                      /\ r.bytes.frame = s_none
                      /\ r.bytes.height = a.size + 2 * EXPAND_BORDER
                      /\ r.svg_bytes.frame = s_none
                      /\ r.svg_bytes.height = r.svg_bytes.width

\* a call with a caption and frame_style "none" returned a pill in both
C23_Witness ==
    /\ calls["c1"].pc = "returned"
    /\ Truthy(calls["c1"].args.frame_text)
    /\ calls["c1"].args.frame_style = s_none
    /\ calls["c1"].result.bytes.frame = s_pill
    /\ calls["c1"].result.svg_bytes.frame = s_pill

\* no logo was given, or the file is not on disk, or it cannot be decoded
LogoUnavailable(logo_path) ==
    \/ ~Truthy(logo_path)
    \/ logo_path \notin DOMAIN LogoFiles
    \/ LogoFiles[logo_path] = "corrupt"

\* C24: a logo that is missing, is not on disk or cannot be decoded never
\* aborts rendering: the call does not raise, the image comes out of the logo
\* stage as it went in (the PNG is the one of the same call without a logo),
\* and the call returns PNG, SVG and PDF bytes.
C24_LogoNeverAborts ==
    \A c \in Calls :
        (calls[c].pc # "idle" /\ LogoUnavailable(calls[c].args.logo_path)) =>
            /\ calls[c].pc # "raised"
            /\ calls[c].img.logo = "none"
            /\ calls[c].pc = "returned" =>
                 /\ calls[c].result.bytes
                      = Image([calls[c].args EXCEPT !.logo_path = PyNone],
                              calls[c].safe_fg, calls[c].safe_bg)
                 /\ calls[c].result.svg_bytes # NoSvg
                 /\ calls[c].result.pdf_bytes = to_pdf_bytes(calls[c].result.bytes)

\* a call whose logo file cannot be decoded returned
C24_Witness ==
    /\ calls["c1"].pc = "returned"
    /\ calls["c1"].args.logo_path = LogoCorrupt
    /\ calls["c1"].result.bytes # NoImage

\* the quiet zone of the preset, before safe mode looks at it (line 112)
PresetQuietZone == Clamp(2, PRESET_EXPORT_CONFIG(OutputKey(raw.output_preset)).quiet_zone, 12)

\* the contrast of the uncorrected pair (line 118)
UncorrectedContrast ==
    design_contrast_ratio(PyStr(Uncorrected(raw).fg), PyStr(Uncorrected(raw).bg))

\* C25: safe_mode_applied is true exactly when safe mode was requested and at
\* least one correction step fired: the uncorrected contrast is below 4.5, or
\* the modules are thin-line with a size below 700, or the quiet zone is below
\* 4; it is never true when safe mode was not requested.
C25_AppliedIffCorrected ==
    resolved.status = "ok" =>
        LET d == resolved.design
        IN  /\ d.safe_mode_applied
                 = (/\ d.safe_mode
                    /\ \/ Uncorrected(raw).module = s_thin_line /\ d.qr_size < 700
                       \/ PresetQuietZone < 4
                       \/ UncorrectedContrast < 4500)
            /\ ~d.safe_mode => ~d.safe_mode_applied

\* safe mode replaced thin-line modules of a pair whose contrast was fine
C25_Witness ==
    /\ resolved.status = "ok"
    /\ resolved.design.safe_mode
    /\ resolved.design.safe_mode_applied
    /\ UncorrectedContrast >= 4500
    /\ Uncorrected(raw).module = s_thin_line
    /\ resolved.design.module_style = s_square

\* C26: when safe mode is not requested resolve_design applies no correction:
\* the resolved fg, bg, module_style and quiet_zone are the uncorrected values
\* (the preset's, or the caller's overrides under the custom style), even
\* when they are risky.
C26_NoSafeNoCorrection ==
    (resolved.status = "ok" /\ ~resolved.design.safe_mode) =>
        LET d == resolved.design
            u == Uncorrected(raw)
        IN  /\ d.fg = u.fg
            /\ d.bg = u.bg
            /\ d.module_style = u.module
            /\ d.quiet_zone = PresetQuietZone
            /\ d.contrast_ratio = UncorrectedContrast

\* without safe mode a custom pair of low contrast and thin-line modules at
\* a small size were resolved as they came
C26_Witness ==
    /\ resolved.status = "ok"
    /\ ~resolved.design.safe_mode
    /\ CustomStyle
    /\ resolved.design.contrast_ratio < 4500
    /\ resolved.design.module_style = s_thin_line
    /\ resolved.design.qr_size < 700

\* the contrast the uncorrected background has with the foreground of the
\* first correction: near-black on a light background, white on a dark one
FlippedContrast ==
    design_contrast_ratio(
        PyStr(IF design_relative_luminance(design_hex_to_rgb(PyStr(Uncorrected(raw).bg))) > 500000
              THEN s_near_black ELSE s_white),
        PyStr(Uncorrected(raw).bg))

\* C27: under safe mode the correction steps run in order and only while the
\* risk persists: an uncorrected contrast of 4.5 or more keeps fg and bg; a
\* lower one flips the foreground to near-black or white and, when that
\* reaches 4.5, keeps the background; only when the flip still leaves the
\* contrast below 4.5 is the pair replaced by the fixed safe pair.
C27_StepsWhileRisky ==
    (resolved.status = "ok" /\ resolved.design.safe_mode) =>
        LET d == resolved.design
            u == Uncorrected(raw)
            before == UncorrectedContrast
        IN  /\ before >= 4500 => (d.fg = u.fg /\ d.bg = u.bg)
            /\ before < 4500 =>
                  LET flipped == FlippedContrast
                  IN  /\ flipped >= 4500 =>
                          /\ d.fg \in {s_near_black, s_white}
                          /\ d.bg = u.bg
                          /\ d.contrast_ratio = flipped
                      /\ flipped < 4500 => (d.fg = s_navy /\ d.bg = s_white)

\* the flip alone was enough: white on #FFFFFE became near-black on #FFFFFE
C27_Witness ==
    /\ resolved.status = "ok"
    /\ resolved.design.safe_mode
    /\ UncorrectedContrast < 4500
    /\ FlippedContrast >= 4500
    /\ resolved.design.fg = s_near_black
    /\ resolved.design.bg = <<"#","F","F","F","F","F","E">>

\* C28: an authorized update of a URL QR changes only its stored data and
\* title: after any sequence of updates its slug, dynamic_url, image_path and
\* owner (and every other column) are those of its creation, so the printed
\* image keeps pointing to the same /d/{slug}.
C28_UpdateKeepsIdentity ==
    \A id \in DOMAIN qrs :
        qrs[id].type = "url" =>
            /\ qrs[id].slug = SeedRows[id].slug
            /\ qrs[id].dynamic_url = SeedRows[id].dynamic_url
            /\ qrs[id].dynamic_url = "/d/" \o qrs[id].slug
            /\ qrs[id].image_path = SeedRows[id].image_path
            /\ qrs[id].user_id = SeedRows[id].user_id
            /\ qrs[id] = [SeedRows[id] EXCEPT !.title = qrs[id].title,
                                              !.encrypted_content = qrs[id].encrypted_content]

\* the owner's QR was just updated by someone allowed to: its data and title
\* are new, its dynamic URL is the one of its creation
C28_Witness ==
    /\ resp.route = "update_url"
    /\ resp.status = 200
    /\ resp.target = 1
    /\ get_data(qrs[1]).url = "https://owner-new.example.com"
    /\ qrs[1].title = "Updated Owner QR"
    /\ qrs[1].dynamic_url = "/d/tenant-isolation-slug"

\* C29: for a coupon with max_redemptions > 0 the number of stored
\* redemptions never exceeds max_redemptions, after any sequence and any
\* interleaving of concurrent redeem requests; a request that finds the count
\* at the limit stores nothing and redirects with error=soldout.
C29_RedemptionLimit ==
    /\ \A q \in CouponRows :
          q.max_redemptions > 0 =>
              CountRedemptions(redemptions, q.id) <= q.max_redemptions
    /\ \A r \in Redeemers :
          redeems[r].outcome = "soldout" =>
              ~\E x \in redemptions : x.by = r /\ x.request = redeems[r].made

\* the host of a base URL: what stands between "://" and the next ":" or "/"
RECURSIVE UpTo(_, _)
UpTo(s, stops) ==
    IF s = <<>> \/ Head(s) \in stops THEN <<>> ELSE <<Head(s)>> \o UpTo(Tail(s), stops)

HostOf(base) ==
    LET i == CHOOSE i \in 1..Len(base) :
                 /\ SubSeq(base, i, i + 2) = <<":","/","/">>
                 /\ \A j \in 1..(i - 1) : SubSeq(base, j, j + 2) # <<":","/","/">>
    IN  UpTo(SubSeq(base, i + 3, Len(base)), {":", "/"})

\* the base URL the documented priority gives, each value without the
\* slashes at its end
DocumentedBase(request, env) ==
    IF request.t # "none" /\ HostOf(request.s) \in {s_localhost, s_loopback}
    THEN RStripSlash(request.s)
    ELSE IF env.t # "none" /\ Strip(env.s) # <<>> THEN RStripSlash(Strip(env.s))
    ELSE IF request.t # "none" THEN RStripSlash(request.s)
    ELSE APP_FALLBACK

\* C30: resolve_app_base_url follows its documented priority for every
\* request and environment: the request's base URL when the request is on
\* localhost or 127.0.0.1, otherwise the environment value when set, otherwise
\* the request's base URL, otherwise http://127.0.0.1:8000; build_dynamic_url
\* returns that base followed by /d/{slug}.
C30_BasePriority ==
    /\ app.base # NoUrl => app.base = DocumentedBase(app.request, app.env)
    /\ app.url # NoUrl =>
          app.url = DocumentedBase(app.request, app.env) \o <<"/","d","/">> \o app.slug

=============================================================================
